---- MODULE Spec2Model ----
(***************************************************************************)
(* The subtyl-socket secure handshake: SecureProvider (Initiator) and      *)
(* SecureConsumer (Responder), with the crypto-utils they are built on.    *)
(*                                                                         *)
(* A Buffer is a sequence of naturals.  An optional value (a field that    *)
(* may be undefined) is the empty tuple when undefined and the one-element *)
(* tuple <<v>> when it holds v.  A base64 string is <<"b64", buffer>>.     *)
(***************************************************************************)
EXTENDS Integers, Sequences, FiniteSets, TLC

VARIABLES provider, consumer, wire, last, verified, errored, driven, hkdf,
          cmp, plugin, buffers, pluginCall, keySource, sealed, legacy

vars == <<provider, consumer, wire, last, verified, errored, driven, hkdf,
          cmp, plugin, buffers, pluginCall, keySource, sealed, legacy>>

\* the variables of the utilities outside the handshake: the comparison in
\* progress, the encryption plugin, the key buffers its caller holds, the
\* plugin's last call, and the peer ("provider", "consumer") whose derived
\* key buffers those are ("none" for buffers of the caller's own)
utilVars == <<cmp, plugin, buffers, pluginCall, keySource, sealed, legacy>>

\* the variables of the handshake and of the HKDF call
handshakeVars ==
    <<provider, consumer, wire, last, verified, errored, driven, hkdf>>

-----------------------------------------------------------------------------
(* Bounds of the model *)

\* how many nonce values each honest peer may draw at construction
NumNonces == 2
\* how many session ids the provider may draw at construction
NumSessionIds == 2

-----------------------------------------------------------------------------
(* Optional values, buffers, base64 strings *)

Undefined == <<>>

Some(v) == <<v>>

IsDefined(o) == o # <<>>

Get(o) == o[1]

\* a fill that leaves the buffer as it was
FillNone(buf) == buf

\* a fill that inverts every byte of the buffer
FillFlip(buf) == [i \in 1..Len(buf) |-> 255 - buf[i]]

\* Buffer.fill(0): every byte of the buffer becomes 0, the length stays
Fill0(buf) == [i \in 1..Len(buf) |-> 0]

\* buffer.toString('base64')
ToBase64(buf) == <<"b64", buf>>

\* Buffer.from(str, 'base64') for a string; an undefined argument throws a
\* TypeError, which the callers test with IsDefined before decoding
FromBase64(str) == str[2]

-----------------------------------------------------------------------------
(* ECDH: createECDH('prime256v1') is modelled by Diffie-Hellman in the     *)
(* multiplicative group modulo GroupModulus with generator GroupGenerator; *)
(* a public key is valid when it is an element of the group.               *)

GroupModulus == 11

GroupGenerator == 2

RECURSIVE ModPow(_, _)
ModPow(b, e) == IF e = 0 THEN 1 ELSE (b * ModPow(b, e - 1)) % GroupModulus

\* ecdh.getPublicKey(): the public half of the key pair, as a Buffer
GetPublicKey(priv) == <<ModPow(GroupGenerator, priv)>>

\* the point check ecdh.computeSecret makes before it computes: it throws
\* for a buffer that is no point of the group
IsValidPublicKey(pub) == Len(pub) = 1 /\ pub[1] \in 1..(GroupModulus - 1)

\* ecdh.computeSecret(otherPublicKey) for a valid key
ComputeSecret(priv, pub) == <<ModPow(pub[1], priv)>>

-----------------------------------------------------------------------------
(* crypto-utils: HMAC, HKDF, createContextInfo, constantTimeCompare *)

\* createHmac('sha256', key).update(data).digest(), collision-free: the
\* digest is the length-prefixed encoding of (key, data)
Hmac(key, data) == <<Len(key)>> \o key \o data

\* SHA-256 output length
HashLen == 32

\* the key length SecureProvider and SecureConsumer ask HKDF for
KeyLen == 32

\* the largest number of blocks HKDF.expand produces
MaxBlocks == 255

\* HKDF.extract that leaves the salt out of the pseudorandom key
HKDF_extractNoSalt(salt, ikm) == Hmac(<<>>, ikm)

HKDF_extract(salt, ikm) == Hmac(salt, ikm)

\* the quotient rounded down instead of up
FloorDiv(a, b) == a \div b

\* Math.ceil(length / hashLen)
CeilDiv(a, b) == (a + b - 1) \div b

\* Buffer.from([i]): the block counter as one byte
CounterByte(i) == i % 256

\* t = Buffer.from(hmac.digest()); result.push(t), on the loop state st =
\* (t, result)
ExpandPush(st, t) == [t |-> t, result |-> Append(st.result, t)]

\* one iteration of the loop of HKDF.expand: the HMAC of t || info || i
\* under prk becomes the new t and is pushed
ExpandStep(prk, info, i, st) ==
    ExpandPush(st, Hmac(prk, st.t \o info \o <<CounterByte(i)>>))

\* the loop of HKDF.expand run from loop state st until n blocks are pushed;
\* the loop variable i is Len(st.result) + 1.  The iterations are run in
\* order: those up to the middle one, then the rest from the state reached.
RECURSIVE ExpandLoop(_, _, _, _)
ExpandLoop(prk, info, n, st) ==
    IF Len(st.result) >= n THEN st
    ELSE IF Len(st.result) + 1 = n THEN ExpandStep(prk, info, n, st)
    ELSE ExpandLoop(prk, info, n,
                    ExpandLoop(prk, info, (Len(st.result) + 1 + n) \div 2, st))

\* HKDF.expand from `let t = Buffer.alloc(0)` to the end of its loop:
\* T(i) = HMAC(prk, T(i-1) || info || i), i = 1..n, and the blocks
\* T(1)..T(n) in order
ExpandBlocks(prk, info, n) ==
    ExpandLoop(prk, info, n, [t |-> <<>>, result |-> <<>>]).result

\* the length test of HKDF.expand: n > 255
HKDF_tooLarge(length) == CeilDiv(length, HashLen) > MaxBlocks

\* HKDF.expand; a thrown error is the value "throw".  Each block stands for
\* hashLen bytes, so a length that is a multiple of hashLen keeps all blocks.
HKDF_expand(prk, info, length) ==
    IF HKDF_tooLarge(length) THEN "throw"
    ELSE ExpandBlocks(prk, info, CeilDiv(length, HashLen))

\* the byte length of Buffer.concat(result).subarray(0, length), every
\* block being a digest of hashLen bytes
DerivedByteLength(blocks, length) ==
    IF Len(blocks) * HashLen < length THEN Len(blocks) * HashLen ELSE length

\* the counter byte that went into each block, the last byte hashed
BlockCounters(blocks) == [i \in 1..Len(blocks) |-> blocks[i][Len(blocks[i])]]

\* the blocks of one derived key, concatenated (Buffer.concat(result))
RECURSIVE ConcatAll(_)
ConcatAll(blocks) ==
    IF blocks = <<>> THEN <<>> ELSE Head(blocks) \o ConcatAll(Tail(blocks))

HKDF_derive(ikm, salt, info, length) ==
    ConcatAll(HKDF_expand(HKDF_extract(salt, ikm), info, length))

\* the version octet createContextInfo appends by default
ContextVersion == 1

\* createContextInfo that leaves the context label out
createContextInfoNoLabel(context) == <<0, ContextVersion>>

\* createContextInfo(context): [byte length] || utf8(context) || [version];
\* Buffer.from([n]) keeps the low eight bits of n
createContextInfo(context) ==
    <<Len(context) % 256>> \o context \o <<ContextVersion>>

\* utf8 of 'SubtylSocket-Encryption'
EncryptionLabel ==
    <<83, 117, 98, 116, 121, 108, 83, 111, 99, 107, 101, 116, 45,
      69, 110, 99, 114, 121, 112, 116, 105, 111, 110>>

\* utf8 of 'SubtylSocket-Authentication'
AuthenticationLabel ==
    <<83, 117, 98, 116, 121, 108, 83, 111, 99, 107, 101, 116, 45,
      65, 117, 116, 104, 101, 110, 116, 105, 99, 97, 116, 105, 111, 110>>

\* utf8 of 'SubtylSocket-KeyConfirmation'
KeyConfirmationLabel ==
    <<83, 117, 98, 116, 121, 108, 83, 111, 99, 107, 101, 116, 45,
      75, 101, 121, 67, 111, 110, 102, 105, 114, 109, 97, 116, 105, 111, 110>>

\* the loop of constantTimeCompare: result |= a[i] ^ b[i] for every index;
\* the accumulator is 0 until a differing byte has been seen and stays
\* nonzero afterwards
RECURSIVE CompareLoop(_, _, _, _)
CompareLoop(a, b, i, result) ==
    IF i > Len(a) THEN result
    ELSE CompareLoop(a, b, i + 1, IF a[i] # b[i] THEN 1 ELSE result)

\* constantTimeCompare that returns after the length test
constantTimeCompareLengthOnly(a, b) == Len(a) = Len(b)

constantTimeCompare(a, b) ==
    IF Len(a) # Len(b) THEN FALSE ELSE CompareLoop(a, b, 1, 0) = 0

-----------------------------------------------------------------------------
(* Messages and results *)

\* a parsed JSON message: every field a handler reads; an absent field is
\* Undefined.  raw tells what the caller passed: a JSON object (or its
\* text), a string that is not JSON, or null
EmptyMsg ==
    [raw |-> "json", type |-> "", version |-> Undefined,
     sessionId |-> Undefined, publicKey |-> Undefined,
     providerNonce |-> Undefined, consumerNonce |-> Undefined,
     supportedCiphers |-> Undefined, supportedHashes |-> Undefined,
     selectedCipher |-> Undefined, selectedHash |-> Undefined,
     confirmationMac |-> Undefined]

\* the value a handler returns: type, confirmed, and the optional error,
\* response (consumer) and confirmationMac (provider)
Result(type, confirmed) ==
    [type |-> type, confirmed |-> confirmed, error |-> "",
     response |-> Undefined, confirmationMac |-> Undefined]

\* a catch block that drops the message of the error it caught
ErrorResultGeneric(message) ==
    [type |-> "error", confirmed |-> FALSE, error |-> "Handshake failed",
     response |-> Undefined, confirmationMac |-> Undefined]

\* the catch block of handleMessage / handleResponse
ErrorResult(message) ==
    [type |-> "error", confirmed |-> FALSE, error |-> message,
     response |-> Undefined, confirmationMac |-> Undefined]

\* an error that carries no message
NoMessage == ""

\* the message of the TypeError the runtime throws when a handler decodes an
\* undefined field, concatenates an undefined buffer or reads a property of
\* undefined derivedKeys
TypeErrorMessage == "TypeError"

\* the message of the error ecdh.computeSecret throws for an invalid key
InvalidKeyMessage == "Public key is not valid for specified curve"

ProtocolVersion == 1

-----------------------------------------------------------------------------
(* Key schedule, shared by both peers (_deriveKeys) *)

\* the three HKDF outputs assigned to handshakeState.derivedKeys
DeriveBundle(sharedSecret, salt) ==
    [encryptionKey |->
        HKDF_derive(sharedSecret, salt, createContextInfo(EncryptionLabel), KeyLen),
     authenticationKey |->
        HKDF_derive(sharedSecret, salt, createContextInfo(AuthenticationLabel), KeyLen),
     confirmationKey |->
        HKDF_derive(sharedSecret, salt, createContextInfo(KeyConfirmationLabel), KeyLen)]

-----------------------------------------------------------------------------
(* SecureProvider *)

\* the state the constructor builds
NewProvider(priv, sessionId, nonce) ==
    [ecdh |-> priv, sessionId |-> sessionId, providerNonce |-> nonce,
     consumerNonce |-> Undefined, sharedSecret |-> Undefined,
     derivedKeys |-> Undefined, confirmed |-> FALSE]

\* the message startHandshake sends
ProviderInitMessage(p) ==
    [EmptyMsg EXCEPT !.type = "handshake-init",
                     !.version = Some(ProtocolVersion),
                     !.sessionId = p.sessionId,
                     !.publicKey = ToBase64(GetPublicKey(p.ecdh)),
                     !.providerNonce = ToBase64(p.providerNonce),
                     !.supportedCiphers = Some({"aes-256-gcm"}),
                     !.supportedHashes = Some({"sha256"})]

\* salt of SecureProvider._deriveKeys
ProviderSalt(p) == p.providerNonce \o Get(p.consumerNonce)

\* ProviderDeriveKeys with the confirmation key derived under the salt of
\* the two nonces in the other order
ProviderDeriveKeysMixedSalt(p) ==
    [p EXCEPT !.derivedKeys =
        Some([DeriveBundle(Get(p.sharedSecret), ProviderSalt(p)) EXCEPT
                !.confirmationKey =
                    HKDF_derive(Get(p.sharedSecret),
                                Get(p.consumerNonce) \o p.providerNonce,
                                createContextInfo(KeyConfirmationLabel), KeyLen)])]

\* SecureProvider._deriveKeys: the state with derivedKeys assigned
ProviderDeriveKeys(p) ==
    [p EXCEPT !.derivedKeys =
        Some(DeriveBundle(Get(p.sharedSecret), ProviderSalt(p)))]

\* confirmationData of _processHandshakeResponse: N_I || N_R || PK_I || PK_R
ProviderConfirmationData(p, consumerPublicKey) ==
    p.providerNonce \o Get(p.consumerNonce) \o GetPublicKey(p.ecdh) \o consumerPublicKey

\* confirmationData of _processKeyConfirmation: N_R || N_I || PK_R || PK_I,
\* with PK_R taken from the message
ProviderExpectedData(p, consumerPublicKey) ==
    Get(p.consumerNonce) \o p.providerNonce \o consumerPublicKey \o GetPublicKey(p.ecdh)

\* _processHandshakeResponse without its session id check
ProviderSessionUnchecked(p, data) == TRUE

\* the session id check of _processHandshakeResponse
ProviderSessionMatches(p, data) == data.sessionId = p.sessionId

\* _processHandshakeResponse from the MAC on: the confirmation MAC over the
\* transcript and the send-confirmation result
SendConfirmation(p, consumerPublicKey) ==
    [state |-> p,
     result |-> [Result("send-confirmation", FALSE) EXCEPT
                   !.confirmationMac =
                      ToBase64(Hmac(Get(p.derivedKeys).confirmationKey,
                                    ProviderConfirmationData(p, consumerPublicKey)))]]

\* _processHandshakeResponse from computeSecret on, the consumer nonce being
\* stored and the public key decoded
ResponseKeyDecoded(p, consumerPublicKey) ==
    IF ~IsValidPublicKey(consumerPublicKey)
    THEN [state |-> p, result |-> ErrorResult(InvalidKeyMessage)]
    ELSE SendConfirmation(
            ProviderDeriveKeys(
                [p EXCEPT !.sharedSecret =
                    Some(ComputeSecret(p.ecdh, consumerPublicKey))]),
            consumerPublicKey)

\* SecureProvider._processHandshakeResponse: the state and the result; a
\* throw keeps the assignments made before it
ProcessHandshakeResponse(p, data) ==
    IF ~ProviderSessionMatches(p, data)
    THEN [state |-> p, result |-> ErrorResult("Session ID mismatch")]
    ELSE IF ~IsDefined(data.consumerNonce)
    THEN [state |-> p, result |-> ErrorResult(TypeErrorMessage)]
    ELSE IF ~IsDefined(data.publicKey)
    THEN [state |-> [p EXCEPT !.consumerNonce = Some(FromBase64(data.consumerNonce))],
          result |-> ErrorResult(TypeErrorMessage)]
    ELSE ResponseKeyDecoded(
            [p EXCEPT !.consumerNonce = Some(FromBase64(data.consumerNonce))],
            FromBase64(data.publicKey))

\* SecureProvider._processKeyConfirmation
ProcessKeyConfirmation(p, data) ==
    IF \/ ~IsDefined(data.confirmationMac)
       \/ ~IsDefined(p.consumerNonce)
       \/ ~IsDefined(data.publicKey)
       \/ ~IsDefined(p.derivedKeys)
    THEN [state |-> p, result |-> ErrorResult(TypeErrorMessage)]
    ELSE
    LET receivedMac == FromBase64(data.confirmationMac)
        expectedMac ==
            Hmac(Get(p.derivedKeys).confirmationKey,
                 ProviderExpectedData(p, FromBase64(data.publicKey)))
    IN  IF constantTimeCompare(receivedMac, expectedMac)
        THEN [state |-> [p EXCEPT !.confirmed = TRUE],
              result |-> Result("handshake-complete", TRUE)]
        ELSE [state |-> p,
              result |-> ErrorResult("Key confirmation failed - potential MITM attack")]

\* SecureProvider.handleResponse, with _normalizeMessage
handleResponse(p, message) ==
    IF message.raw = "notjson"
    THEN [state |-> p, result |-> ErrorResult("Invalid message format")]
    ELSE IF message.raw = "null"
    THEN [state |-> p, result |-> ErrorResult(TypeErrorMessage)]
    ELSE IF message.type = "handshake-response"
    THEN ProcessHandshakeResponse(p, message)
    ELSE IF message.type = "key-confirmation"
    THEN ProcessKeyConfirmation(p, message)
    ELSE [state |-> p, result |-> ErrorResult("Unknown message type")]

\* getDerivedKeys without the test of the confirmed flag
getDerivedKeysUnconfirmed(hs) ==
    IF ~IsDefined(hs.derivedKeys)
    THEN Undefined
    ELSE Some([encryptionKey |-> Get(hs.derivedKeys).encryptionKey,
               authenticationKey |-> Get(hs.derivedKeys).authenticationKey])

\* getDerivedKeys of either peer: null (Undefined) or the two exposed keys
getDerivedKeys(hs) ==
    IF ~hs.confirmed \/ ~IsDefined(hs.derivedKeys)
    THEN Undefined
    ELSE Some([encryptionKey |-> Get(hs.derivedKeys).encryptionKey,
               authenticationKey |-> Get(hs.derivedKeys).authenticationKey])

isHandshakeConfirmed(hs) == hs.confirmed

\* the three key buffers of derivedKeys after destroy has filled them, just
\* before the reference to them is dropped
ZeroizeKeys(keys) ==
    [encryptionKey |-> Fill0(keys.encryptionKey),
     authenticationKey |-> Fill0(keys.authenticationKey),
     confirmationKey |-> Fill0(keys.confirmationKey)]

\* a key pair holding copies: the fills of a peer's destroy() do not reach it
CopiedFromPeer(hs, held) == held

\* the key pair a plugin or a caller holds, made of the exposed key buffers
\* of peer hs, after destroy() of hs: the fills run when hs still has its
\* bundle, and the holder sees its two buffers zero
FilledByPeer(hs, held) ==
    IF IsDefined(hs.derivedKeys) /\ IsDefined(held)
    THEN Some([encryptionKey |-> Fill0(Get(held).encryptionKey),
               authenticationKey |-> Fill0(Get(held).authenticationKey)])
    ELSE held

\* A derived key as the Buffer of KeyLen bytes getDerivedKeys() hands out.
\* HKDF_derive gives the key as the encoding of what was hashed, which
\* stands for KeyLen bytes; the Buffer holds that encoding written over
\* KeyLen bytes, and a zero-filled key gives a zero-filled Buffer.
KeyBuffer(key) == [i \in 1..KeyLen |-> key[((i - 1) % Len(key)) + 1]]

getSessionId(hs) == hs.sessionId

\* a destroy that leaves the confirmed flag as it was
ProviderDestroyKeepsConfirmed(p) ==
    [p EXCEPT !.sharedSecret = IF IsDefined(@) THEN Some(Fill0(Get(@))) ELSE @,
              !.derivedKeys = Undefined,
              !.providerNonce = Fill0(@),
              !.consumerNonce = IF IsDefined(@) THEN Some(Fill0(Get(@))) ELSE @]

\* SecureProvider.destroy
ProviderDestroy(p) ==
    [p EXCEPT !.sharedSecret = IF IsDefined(@) THEN Some(Fill0(Get(@))) ELSE @,
              !.derivedKeys = Undefined,
              !.providerNonce = Fill0(@),
              !.consumerNonce = IF IsDefined(@) THEN Some(Fill0(Get(@))) ELSE @,
              !.confirmed = FALSE]

-----------------------------------------------------------------------------
(* SecureConsumer *)

\* the state the constructor builds
NewConsumer(priv, nonce) ==
    [ecdh |-> priv, sessionId |-> Undefined, providerNonce |-> Undefined,
     consumerNonce |-> nonce, sharedSecret |-> Undefined,
     derivedKeys |-> Undefined, confirmed |-> FALSE,
     providerPublicKey |-> Undefined]

\* salt of SecureConsumer._deriveKeys
ConsumerSalt(c) == Get(c.providerNonce) \o c.consumerNonce

\* ConsumerDeriveKeys with the encryption key derived under the
\* authentication label
ConsumerDeriveKeysWrongLabel(c) ==
    [c EXCEPT !.derivedKeys =
        Some([DeriveBundle(Get(c.sharedSecret), ConsumerSalt(c)) EXCEPT
                !.encryptionKey =
                    HKDF_derive(Get(c.sharedSecret), ConsumerSalt(c),
                                createContextInfo(AuthenticationLabel), KeyLen)])]

\* SecureConsumer._deriveKeys: the state with derivedKeys assigned
ConsumerDeriveKeys(c) ==
    [c EXCEPT !.derivedKeys =
        Some(DeriveBundle(Get(c.sharedSecret), ConsumerSalt(c)))]

\* ConsumerExpectedData with the two nonces in the consumer's own order
ConsumerExpectedDataOwnOrder(c) ==
    c.consumerNonce \o Get(c.providerNonce)
        \o Get(c.providerPublicKey) \o GetPublicKey(c.ecdh)

\* confirmationData of _processKeyConfirmationRequest, the data of the MAC
\* expected from the provider: N_I || N_R || PK_I || PK_R
ConsumerExpectedData(c) ==
    Get(c.providerNonce) \o c.consumerNonce
        \o Get(c.providerPublicKey) \o GetPublicKey(c.ecdh)

\* ourConfirmationData: N_R || N_I || PK_R || PK_I
ConsumerConfirmationData(c) ==
    c.consumerNonce \o Get(c.providerNonce)
        \o GetPublicKey(c.ecdh) \o Get(c.providerPublicKey)

\* _processHandshakeInit without its version check
VersionUnchecked(data) == TRUE

\* the version check of _processHandshakeInit
VersionSupported(data) == data.version = Some(ProtocolVersion)

\* the algorithm check with its test of supportedHashes left out
AlgorithmsCiphersOnly(data) ==
    /\ IsDefined(data.supportedCiphers)
    /\ "aes-256-gcm" \in Get(data.supportedCiphers)

\* the algorithm check of _processHandshakeInit: list?.includes(name)
AlgorithmsSupported(data) ==
    /\ IsDefined(data.supportedCiphers)
    /\ "aes-256-gcm" \in Get(data.supportedCiphers)
    /\ IsDefined(data.supportedHashes)
    /\ "sha256" \in Get(data.supportedHashes)

\* RespondToInit with the sessionId left out of the handshake-response
RespondToInitNoSession(c) ==
    [state |-> c,
     result |-> [Result("handshake-response", FALSE) EXCEPT
                   !.response =
                      Some([EmptyMsg EXCEPT
                              !.type = "handshake-response",
                              !.publicKey = ToBase64(GetPublicKey(c.ecdh)),
                              !.consumerNonce = ToBase64(c.consumerNonce),
                              !.selectedCipher = Some("aes-256-gcm"),
                              !.selectedHash = Some("sha256")])]]

\* _processHandshakeInit from the response on: the handshake-response and
\* the result that carries it
RespondToInit(c) ==
    [state |-> c,
     result |-> [Result("handshake-response", FALSE) EXCEPT
                   !.response =
                      Some([EmptyMsg EXCEPT
                              !.type = "handshake-response",
                              !.sessionId = c.sessionId,
                              !.publicKey = ToBase64(GetPublicKey(c.ecdh)),
                              !.consumerNonce = ToBase64(c.consumerNonce),
                              !.selectedCipher = Some("aes-256-gcm"),
                              !.selectedHash = Some("sha256")])]]

\* _processHandshakeInit from computeSecret on, the session id, the provider
\* nonce and the provider public key being stored
InitStored(c) ==
    IF ~IsValidPublicKey(Get(c.providerPublicKey))
    THEN [state |-> c, result |-> ErrorResult(InvalidKeyMessage)]
    ELSE RespondToInit(
            ConsumerDeriveKeys(
                [c EXCEPT !.sharedSecret =
                    Some(ComputeSecret(c.ecdh, Get(c.providerPublicKey)))]))

\* SecureConsumer._processHandshakeInit: the state and the result; a throw
\* keeps the assignments made before it
ProcessHandshakeInit(c, data) ==
    IF ~VersionSupported(data)
    THEN [state |-> c, result |-> ErrorResult("Unsupported protocol version")]
    ELSE IF ~AlgorithmsSupported(data)
    THEN [state |-> c, result |-> ErrorResult("Unsupported cryptographic algorithms")]
    ELSE IF ~IsDefined(data.providerNonce)
    THEN [state |-> [c EXCEPT !.sessionId = data.sessionId],
          result |-> ErrorResult(TypeErrorMessage)]
    ELSE IF ~IsDefined(data.publicKey)
    THEN [state |-> [c EXCEPT !.sessionId = data.sessionId,
                              !.providerNonce = Some(FromBase64(data.providerNonce))],
          result |-> ErrorResult(TypeErrorMessage)]
    ELSE InitStored(
            [c EXCEPT !.sessionId = data.sessionId,
                      !.providerNonce = Some(FromBase64(data.providerNonce)),
                      !.providerPublicKey = Some(FromBase64(data.publicKey))])

\* _processKeyConfirmationRequest that answers a matching MAC without
\* marking the handshake as confirmed
ProcessKeyConfirmationRequestNoFlag(c, data) ==
    IF \/ ~IsDefined(data.confirmationMac)
       \/ ~IsDefined(c.providerNonce)
       \/ ~IsDefined(c.providerPublicKey)
       \/ ~IsDefined(c.derivedKeys)
    THEN [state |-> c, result |-> ErrorResult(TypeErrorMessage)]
    ELSE
    LET receivedMac == FromBase64(data.confirmationMac)
        expectedMac ==
            Hmac(Get(c.derivedKeys).confirmationKey, ConsumerExpectedData(c))
        ourConfirmationMac ==
            Hmac(Get(c.derivedKeys).confirmationKey, ConsumerConfirmationData(c))
        response ==
            [EmptyMsg EXCEPT
               !.type = "key-confirmation",
               !.sessionId = c.sessionId,
               !.publicKey = ToBase64(GetPublicKey(c.ecdh)),
               !.confirmationMac = ToBase64(ourConfirmationMac)]
    IN  IF ~constantTimeCompare(receivedMac, expectedMac)
        THEN [state |-> c,
              result |-> ErrorResult(
                  "Provider key confirmation failed - potential MITM attack")]
        ELSE [state |-> c,
              result |-> [Result("key-confirmation", TRUE) EXCEPT
                            !.response = Some(response)]]

\* SecureConsumer._processKeyConfirmationRequest
ProcessKeyConfirmationRequest(c, data) ==
    IF \/ ~IsDefined(data.confirmationMac)
       \/ ~IsDefined(c.providerNonce)
       \/ ~IsDefined(c.providerPublicKey)
       \/ ~IsDefined(c.derivedKeys)
    THEN [state |-> c, result |-> ErrorResult(TypeErrorMessage)]
    ELSE
    LET receivedMac == FromBase64(data.confirmationMac)
        expectedMac ==
            Hmac(Get(c.derivedKeys).confirmationKey, ConsumerExpectedData(c))
        ourConfirmationMac ==
            Hmac(Get(c.derivedKeys).confirmationKey, ConsumerConfirmationData(c))
        response ==
            [EmptyMsg EXCEPT
               !.type = "key-confirmation",
               !.sessionId = c.sessionId,
               !.publicKey = ToBase64(GetPublicKey(c.ecdh)),
               !.confirmationMac = ToBase64(ourConfirmationMac)]
    IN  IF ~constantTimeCompare(receivedMac, expectedMac)
        THEN [state |-> c,
              result |-> ErrorResult(
                  "Provider key confirmation failed - potential MITM attack")]
        ELSE [state |-> [c EXCEPT !.confirmed = TRUE],
              result |-> [Result("key-confirmation", TRUE) EXCEPT
                            !.response = Some(response)]]

\* a handleMessage whose fall-through for an unknown type also clears the
\* confirmed flag
handleMessageUnknownResets(c, raw) ==
    IF raw.raw = "notjson"
    THEN [state |-> c, result |-> ErrorResult("Invalid message format")]
    ELSE IF raw.raw = "null"
    THEN [state |-> c, result |-> ErrorResult(TypeErrorMessage)]
    ELSE IF raw.type = "handshake-init"
    THEN ProcessHandshakeInit(c, raw)
    ELSE IF raw.type = "key-confirmation-request"
    THEN ProcessKeyConfirmationRequest(c, raw)
    ELSE [state |-> [c EXCEPT !.confirmed = FALSE],
          result |-> ErrorResult("Unknown message type")]

\* SecureConsumer.handleMessage, with _normalizeMessage
handleMessage(c, raw) ==
    IF raw.raw = "notjson"
    THEN [state |-> c, result |-> ErrorResult("Invalid message format")]
    ELSE IF raw.raw = "null"
    THEN [state |-> c, result |-> ErrorResult(TypeErrorMessage)]
    ELSE IF raw.type = "handshake-init"
    THEN ProcessHandshakeInit(c, raw)
    ELSE IF raw.type = "key-confirmation-request"
    THEN ProcessKeyConfirmationRequest(c, raw)
    ELSE [state |-> c, result |-> ErrorResult("Unknown message type")]

\* SecureConsumer.destroy
ConsumerDestroy(c) ==
    [c EXCEPT !.sharedSecret = IF IsDefined(@) THEN Some(Fill0(Get(@))) ELSE @,
              !.derivedKeys = Undefined,
              !.consumerNonce = Fill0(@),
              !.providerNonce = IF IsDefined(@) THEN Some(Fill0(Get(@))) ELSE @,
              !.confirmed = FALSE]

-----------------------------------------------------------------------------
(* The values the constructors draw, and the values of a third party *)

\* SecureRandom.bytes(32) never returns an all-zero buffer, so a fresh nonce
\* differs from a zeroized one; the two peers draw from disjoint ranges, as
\* two 32-byte random values do not coincide
ProviderNonces == { <<n>> : n \in 1..NumNonces }

ConsumerNonces == { <<NumNonces + n>> : n \in 1..NumNonces }

AttackerNonce == <<2 * NumNonces + 1>>

\* SecureRandom.base64(16)
SessionIds == { ToBase64(<<i>>) : i \in 1..NumSessionIds }

AttackerSessionId == ToBase64(<<NumSessionIds + 1>>)

\* ecdh.generateKeys(): each party holds its own private key, hence its own
\* public key
ProviderPriv == 1

ConsumerPriv == 2

AttackerPriv == 3

\* a buffer that is no point of the group
InvalidPublicKey == <<0>>

\* tamperedMac[0] ^= 0xFF
Tamper(mac) == [mac EXCEPT ![1] = 255 - @]

-----------------------------------------------------------------------------
(* Inputs a caller may pass to the handlers *)

NotJson == [EmptyMsg EXCEPT !.raw = "notjson"]

NullMessage == [EmptyMsg EXCEPT !.raw = "null"]

UnknownMessage == [EmptyMsg EXCEPT !.type = "encrypted-plugin-message"]

\* the key-confirmation-request the provider's owner builds from a result
KeyConfirmationRequest(mac) ==
    [EmptyMsg EXCEPT !.type = "key-confirmation-request", !.confirmationMac = mac]

\* handshake-init messages: the provider's own, and that message altered
InitInputs ==
    LET honest == ProviderInitMessage(provider)
    IN  { honest,
          [honest EXCEPT !.version = Some(999)],
          [honest EXCEPT !.version = Undefined],
          [honest EXCEPT !.supportedCiphers = Some({"weak-cipher"})],
          [honest EXCEPT !.supportedCiphers = Some({"weak-cipher"}),
                         !.supportedHashes = Some({"md5"})],
          [honest EXCEPT !.supportedHashes = Undefined],
          [honest EXCEPT !.sessionId = AttackerSessionId],
          [honest EXCEPT !.publicKey = ToBase64(InvalidPublicKey)],
          [honest EXCEPT !.providerNonce = Undefined],
          [honest EXCEPT !.publicKey = ToBase64(GetPublicKey(AttackerPriv)),
                         !.providerNonce = ToBase64(AttackerNonce)] }

\* a MAC, that MAC with its first byte flipped, and that MAC cut short
Variants(mac) == { mac, Tamper(mac), SubSeq(mac, 1, Len(mac) - 1) }

\* confirmation MACs for the consumer: the one it expects, in the three
\* variants, and the MAC the consumer itself sends
ConsumerMacInputs ==
    IF /\ IsDefined(consumer.derivedKeys)
       /\ IsDefined(consumer.providerNonce)
       /\ IsDefined(consumer.providerPublicKey)
    THEN Variants(Hmac(Get(consumer.derivedKeys).confirmationKey,
                       ConsumerExpectedData(consumer)))
         \cup { Hmac(Get(consumer.derivedKeys).confirmationKey,
                     ConsumerConfirmationData(consumer)) }
    ELSE { <<0>> }

ConsumerInputs ==
    InitInputs
    \cup { KeyConfirmationRequest(ToBase64(mac)) : mac \in ConsumerMacInputs }
    \cup { [KeyConfirmationRequest(ToBase64(mac)) EXCEPT !.sessionId = AttackerSessionId] :
             mac \in ConsumerMacInputs }
    \cup { KeyConfirmationRequest(Undefined), NotJson, NullMessage, UnknownMessage }

\* a handshake-response with the given fields
HandshakeResponse(sessionId, publicKey, nonce) ==
    [EmptyMsg EXCEPT !.type = "handshake-response",
                     !.sessionId = sessionId,
                     !.publicKey = publicKey,
                     !.consumerNonce = nonce,
                     !.selectedCipher = Some("aes-256-gcm"),
                     !.selectedHash = Some("sha256")]

\* handshake-response messages: the consumer's answer to the provider's
\* handshake-init, and that message altered or reflected
ResponseInputs ==
    LET pub == ToBase64(GetPublicKey(consumer.ecdh))
        nonce == ToBase64(consumer.consumerNonce)
        sid == provider.sessionId
    IN  { HandshakeResponse(sid, pub, nonce),
          HandshakeResponse(AttackerSessionId, pub, nonce),
          HandshakeResponse(Undefined, pub, nonce),
          HandshakeResponse(sid, ToBase64(InvalidPublicKey), nonce),
          HandshakeResponse(sid, pub, Undefined),
          HandshakeResponse(sid, ToBase64(GetPublicKey(AttackerPriv)),
                            ToBase64(AttackerNonce)),
          HandshakeResponse(sid, ToBase64(GetPublicKey(provider.ecdh)),
                            ToBase64(provider.providerNonce)) }

\* a key-confirmation with the given fields
KeyConfirmation(sessionId, publicKey, mac) ==
    [EmptyMsg EXCEPT !.type = "key-confirmation",
                     !.sessionId = sessionId,
                     !.publicKey = publicKey,
                     !.confirmationMac = mac]

\* the public keys a key-confirmation may carry
PublicKeyInputs ==
    { GetPublicKey(consumer.ecdh), GetPublicKey(AttackerPriv), GetPublicKey(provider.ecdh) }

\* key-confirmation messages carrying one public key: with the MAC the
\* provider expects (under its own and under another session id), with that
\* MAC tampered, and with the MAC the provider itself sends for that key
KeyConfirmationsFor(pub, expectedMac, ownMac) ==
    { KeyConfirmation(provider.sessionId, pub, ToBase64(expectedMac)),
      KeyConfirmation(AttackerSessionId, pub, ToBase64(expectedMac)),
      KeyConfirmation(provider.sessionId, pub, ToBase64(Tamper(expectedMac))),
      KeyConfirmation(provider.sessionId, pub, ToBase64(ownMac)) }

KeyConfirmationInputs ==
    IF IsDefined(provider.derivedKeys) /\ IsDefined(provider.consumerNonce)
    THEN UNION {
           KeyConfirmationsFor(
              ToBase64(pub),
              Hmac(Get(provider.derivedKeys).confirmationKey,
                   ProviderExpectedData(provider, pub)),
              Hmac(Get(provider.derivedKeys).confirmationKey,
                   ProviderConfirmationData(provider, pub)))
           : pub \in PublicKeyInputs }
    ELSE { KeyConfirmation(provider.sessionId,
                           ToBase64(GetPublicKey(consumer.ecdh)), ToBase64(<<0>>)) }

ProviderInputs ==
    ResponseInputs \cup KeyConfirmationInputs
    \cup { KeyConfirmation(provider.sessionId, ToBase64(GetPublicKey(consumer.ecdh)),
                           Undefined),
           KeyConfirmation(provider.sessionId, Undefined, ToBase64(<<0>>)),
           NotJson, NullMessage, UnknownMessage }

-----------------------------------------------------------------------------
(* JavaScript values and JSON text, as the encryption plugin handles them. *)
(* Every value is a tagged tuple.  A string is tagged by what its text is: *)
(* text that is not JSON, the JSON text of a value, or the base64 text of  *)
(* a buffer.                                                               *)

JsNull == <<"null">>

JsUndefined == <<"undefined">>

JsBool(b) == <<"boolean", b>>

JsNum(n) == <<"number", n>>

\* an object with the given fields (a record of values)
JsObj(fields) == <<"object", fields>>

\* a string whose text JSON.parse rejects
RawText(t) == <<"string", <<"raw", t>>>>

\* the string whose text is the JSON serialisation of v
JsonText(v) == <<"string", <<"json", v>>>>

\* buffer.toString('base64') as a JavaScript string; no bytes give ''
Base64Text(bytes) ==
    IF bytes = <<>> THEN RawText("") ELSE <<"string", ToBase64(bytes)>>

IsString(v) == v[1] = "string"

IsObject(v) == v[1] = "object"

\* typeof v === 'object', which holds for null too
TypeofObject(v) == v[1] \in {"object", "null"}

\* the text of a string is JSON
IsJsonText(s) == IsString(s) /\ s[2][1] = "json"

IsBase64Text(s) == IsString(s) /\ s[2][1] = "b64"

\* the value of v in a condition
Truthy(v) ==
    CASE v[1] \in {"null", "undefined"} -> FALSE
      [] v[1] = "boolean" -> v[2]
      [] v[1] = "number" -> v[2] # 0
      [] v[1] = "string" -> v # RawText("")
      [] OTHER -> TRUE

\* v.f throws a TypeError for null and undefined
PropThrows(v) == v[1] \in {"null", "undefined"}

\* v.f where it does not throw: the field of an object, else undefined
GetProp(v, f) ==
    IF IsObject(v) /\ f \in DOMAIN v[2] THEN v[2][f] ELSE JsUndefined

\* v?.f
GetOptProp(v, f) == IF PropThrows(v) THEN JsUndefined ELSE GetProp(v, f)

\* what JSON.stringify keeps of a value: a field holding undefined is left
\* out of its object
RECURSIVE JsonClean(_)
JsonClean(v) ==
    IF IsObject(v)
    THEN JsObj([f \in {g \in DOMAIN v[2] : v[2][g] # JsUndefined}
                  |-> JsonClean(v[2][f])])
    ELSE v

\* JSON.stringify(v) for a value other than undefined
JSON_stringify(v) == JsonText(JsonClean(v))

\* JSON.parse(s): the value, or a SyntaxError for text that is not JSON
JSON_parse(s) ==
    IF IsJsonText(s) THEN [ok |-> TRUE, value |-> s[2][2]]
    ELSE [ok |-> FALSE, value |-> JsUndefined]

-----------------------------------------------------------------------------
(* AES-256-GCM (createCipheriv / createDecipheriv), modelled as an ideal   *)
(* authenticated cipher: a ciphertext and its tag name the key, the iv and *)
(* the plaintext they were made from, and opening succeeds only for the    *)
(* very key, iv, ciphertext and tag of one sealing.                        *)

\* createCipheriv and createDecipheriv throw for a key that is not 32 bytes
ValidCipherKey(key) == Len(key) = KeyLen

GcmCiphertext(key, iv, plaintext) == <<"ct", key, iv, plaintext>>

\* cipher.getAuthTag() after the ciphertext ct was produced
GcmTag(key, iv, ct) == <<"tag", key, iv, ct>>

\* an authentication that accepts every tag
GcmAuthenticAnyTag(key, iv, ct, tag) ==
    /\ Len(ct) = 4
    /\ ct[1] = "ct"
    /\ ct[2] = key
    /\ ct[3] = iv

\* decipher.final() authenticates: the ciphertext was sealed under this key
\* and iv and the tag is the tag of that sealing
GcmAuthentic(key, iv, ct, tag) ==
    /\ Len(ct) = 4
    /\ ct[1] = "ct"
    /\ ct[2] = key
    /\ ct[3] = iv
    /\ tag = GcmTag(key, iv, ct)

\* the plaintext of an authentic ciphertext
GcmPlaintext(ct) == ct[4]

\* randomBytes(12): the fresh iv number n
Iv(n) == <<"iv", n>>

\* the bytes Buffer.from(s, 'base64') gives for a string: the encoded
\* buffer for base64 text, and bytes that no sealing produced for other text
DecodeBase64(s) == IF IsBase64Text(s) THEN FromBase64(s[2]) ELSE <<"other", s>>

-----------------------------------------------------------------------------
(* BaseEncryptionPlugin and MessageEncryptionPlugin *)

\* the algorithm name MessageEncryptionPlugin passes to super()
AlgorithmName == RawText("aes-256-gcm")

EnvelopeType == RawText("encrypted-plugin-message")

\* the values a call may throw or return
Thrown(error) == [ok |-> FALSE, value |-> JsUndefined, error |-> error]

Returned(v) == [ok |-> TRUE, value |-> v, error |-> ""]

\* setKeys(keys)
setKeys(p, keys) == [p EXCEPT !.keys = Some(keys), !.enabled = TRUE]

\* the field initialisers and the constructor: keys null, enabled false,
\* then setKeys when keys are given
NewPlugin(algorithmName, keys) ==
    IF IsDefined(keys)
    THEN setKeys([algorithmName |-> algorithmName, keys |-> Undefined,
                  enabled |-> FALSE], Get(keys))
    ELSE [algorithmName |-> algorithmName, keys |-> Undefined,
          enabled |-> FALSE]

\* setEnabled(enabled)
setEnabled(p, enabled) == [p EXCEPT !.enabled = enabled]

\* an isEnabled() that reads the flag alone
isEnabledFlagOnly(p) == p.enabled

\* isEnabled()
isEnabled(p) == p.enabled /\ IsDefined(p.keys)

\* destroy(): this.keys = null inside the test of this.keys, enabled = false
PluginDestroy(p) == [p EXCEPT !.keys = Undefined, !.enabled = FALSE]

\* the two fill(0) calls of destroy() on the key buffers the plugin holds,
\* which are the caller's buffers
PluginZeroize(p, held) ==
    IF IsDefined(p.keys)
    THEN Some([encryptionKey |-> Fill0(Get(p.keys).encryptionKey),
               authenticationKey |-> Fill0(Get(p.keys).authenticationKey)])
    ELSE held

\* MessageEncryptionPlugin.encrypt(plaintext) with iv the random bytes drawn
encrypt(p, plaintext, iv) ==
    IF ~IsDefined(p.keys) THEN Thrown("Encryption keys not set")
    ELSE IF ~ValidCipherKey(Get(p.keys).encryptionKey)
    THEN Thrown("Invalid key length")
    ELSE Returned(JsObj(
           [data |-> Base64Text(
                        GcmCiphertext(Get(p.keys).encryptionKey, iv, plaintext)),
            metadata |-> JsObj(
               [iv |-> Base64Text(iv),
                tag |-> Base64Text(
                    GcmTag(Get(p.keys).encryptionKey, iv,
                           GcmCiphertext(Get(p.keys).encryptionKey, iv,
                                         plaintext)))])]))

\* the decipher part of decrypt, given the decoded iv, ciphertext and tag
Decipher(key, iv, ciphertext, tag) ==
    IF ~ValidCipherKey(key) THEN Thrown("Invalid key length")
    ELSE IF ~GcmAuthentic(key, iv, ciphertext, tag)
    THEN Thrown("Unsupported state or unable to authenticate data")
    ELSE Returned(GcmPlaintext(ciphertext))

\* MessageEncryptionPlugin.decrypt(encrypted)
decrypt(p, encrypted) ==
    IF ~IsDefined(p.keys) THEN Thrown("Encryption keys not set")
    ELSE IF PropThrows(encrypted) THEN Thrown("TypeError")
    ELSE IF \/ ~Truthy(GetOptProp(GetProp(encrypted, "metadata"), "iv"))
            \/ ~Truthy(GetOptProp(GetProp(encrypted, "metadata"), "tag"))
    THEN Thrown("Missing required metadata for AES-GCM decryption")
    ELSE IF \/ ~IsString(GetProp(GetProp(encrypted, "metadata"), "iv"))
            \/ ~IsString(GetProp(encrypted, "data"))
            \/ ~IsString(GetProp(GetProp(encrypted, "metadata"), "tag"))
    THEN Thrown("TypeError")
    ELSE Decipher(Get(p.keys).encryptionKey,
                  DecodeBase64(GetProp(GetProp(encrypted, "metadata"), "iv")),
                  DecodeBase64(GetProp(encrypted, "data")),
                  DecodeBase64(GetProp(GetProp(encrypted, "metadata"), "tag")))

\* typeof message === 'string' ? message : JSON.stringify(message)
MessageStr(message) ==
    IF IsString(message) THEN message ELSE JSON_stringify(message)

\* a PluginMessage object that does not name the algorithm
PluginMessageNoAlgorithm(p, encrypted) ==
    JsObj([type |-> EnvelopeType, payload |-> JsNull, encrypted |-> encrypted])

\* the PluginMessage object processOutgoingMessage serialises
PluginMessage(p, encrypted) ==
    JsObj([type |-> EnvelopeType, algorithm |-> p.algorithmName,
           payload |-> JsNull, encrypted |-> encrypted])

\* processOutgoingMessage(message)
processOutgoingMessage(p, message, iv) ==
    IF ~isEnabled(p) THEN Returned(MessageStr(message))
    ELSE IF ~encrypt(p, MessageStr(message), iv).ok
    THEN encrypt(p, MessageStr(message), iv)
    ELSE Returned(JSON_stringify(
            PluginMessage(p, encrypt(p, MessageStr(message), iv).value)))

\* what processIncomingMessage gives back: the value returned and whether
\* decrypt was called on the way
Incoming(v, decrypted) == [value |-> v, decrypted |-> decrypted]

\* IncomingParsed with a failed decryption giving back the parsed envelope
\* instead of the text
IncomingParsedKeepsEnvelope(p, messageStr, parsed) ==
    IF PropThrows(parsed) THEN Incoming(messageStr, FALSE)
    ELSE IF ~(GetProp(parsed, "type") = EnvelopeType
              /\ Truthy(GetProp(parsed, "encrypted")))
    THEN Incoming(parsed, FALSE)
    ELSE IF ~isEnabled(p) THEN Incoming(messageStr, FALSE)
    ELSE IF /\ Truthy(GetProp(parsed, "algorithm"))
            /\ GetProp(parsed, "algorithm") # p.algorithmName
    THEN Incoming(messageStr, FALSE)
    ELSE IF ~decrypt(p, GetProp(parsed, "encrypted")).ok
    THEN Incoming(parsed, TRUE)
    ELSE IF ~JSON_parse(decrypt(p, GetProp(parsed, "encrypted")).value).ok
    THEN Incoming(messageStr, TRUE)
    ELSE Incoming(
           JSON_parse(decrypt(p, GetProp(parsed, "encrypted")).value).value,
           TRUE)

\* the body of the try block of processIncomingMessage once the text has
\* parsed; every throw is caught and returns the text
IncomingParsed(p, messageStr, parsed) ==
    IF PropThrows(parsed) THEN Incoming(messageStr, FALSE)
    ELSE IF ~(GetProp(parsed, "type") = EnvelopeType
              /\ Truthy(GetProp(parsed, "encrypted")))
    THEN Incoming(parsed, FALSE)
    ELSE IF ~isEnabled(p) THEN Incoming(messageStr, FALSE)
    ELSE IF /\ Truthy(GetProp(parsed, "algorithm"))
            /\ GetProp(parsed, "algorithm") # p.algorithmName
    THEN Incoming(messageStr, FALSE)
    ELSE IF ~decrypt(p, GetProp(parsed, "encrypted")).ok
    THEN Incoming(messageStr, TRUE)
    ELSE IF ~JSON_parse(decrypt(p, GetProp(parsed, "encrypted")).value).ok
    THEN Incoming(messageStr, TRUE)
    ELSE Incoming(
           JSON_parse(decrypt(p, GetProp(parsed, "encrypted")).value).value,
           TRUE)

\* processIncomingMessage(rawMessage) for a string
processIncomingMessage(p, rawMessage) ==
    IF ~JSON_parse(rawMessage).ok THEN Incoming(rawMessage, FALSE)
    ELSE IncomingParsed(p, rawMessage, JSON_parse(rawMessage).value)

\* wrapMessage(type, payload, encrypt)
wrapMessage(p, type, payload, enc, iv) ==
    IF enc /\ isEnabled(p)
    THEN processOutgoingMessage(p, JsObj([type |-> type, payload |-> payload]), iv)
    ELSE Returned(JSON_stringify(JsObj([type |-> type, payload |-> payload])))

\* the object unwrapMessage builds from the processed message
Unwrapped(processed) ==
    JsObj([type |-> GetProp(processed, "type"),
           payload |-> IF Truthy(GetProp(processed, "payload"))
                       THEN GetProp(processed, "payload")
                       ELSE processed])

\* unwrapMessage(rawMessage): null when the processed message is no object
\* with a truthy type, and when reading it throws
unwrapMessage(p, rawMessage) ==
    IF /\ TypeofObject(processIncomingMessage(p, rawMessage).value)
       /\ ~PropThrows(processIncomingMessage(p, rawMessage).value)
       /\ Truthy(GetProp(processIncomingMessage(p, rawMessage).value, "type"))
    THEN Unwrapped(processIncomingMessage(p, rawMessage).value)
    ELSE JsNull

-----------------------------------------------------------------------------
(* constantTimeCompare, statement by statement *)

\* the longest buffer compared
MaxCompareLen == 3

\* the byte values the compared buffers are built from
CompareBytes == {0, 1, 255}

CompareBuffers == UNION { [1..n -> CompareBytes] : n \in 0..MaxCompareLen }

\* x ^ y on bytes
RECURSIVE BitXor(_, _)
BitXor(x, y) ==
    IF x = 0 /\ y = 0 THEN 0
    ELSE (((x % 2) + (y % 2)) % 2) + 2 * BitXor(x \div 2, y \div 2)

\* x | y on bytes
RECURSIVE BitOr(_, _)
BitOr(x, y) ==
    IF x = 0 /\ y = 0 THEN 0
    ELSE (IF x % 2 = 1 \/ y % 2 = 1 THEN 1 ELSE 0)
         + 2 * BitOr(x \div 2, y \div 2)

\* (v || 0) for a byte read from a buffer
ByteOrZero(v) == IF v = 0 THEN 0 ELSE v

\* no call of constantTimeCompare in progress
NotCompared ==
    [pc |-> "idle", a |-> <<>>, b |-> <<>>, i |-> 0, result |-> 0,
     visited |-> <<>>, value |-> FALSE]

\* a loop test that also stops at the first differing byte
LoopContinuesUntilMismatch(c) == c.i < Len(c.a) /\ c.result = 0

\* the loop test i < a.length
LoopContinues(c) == c.i < Len(c.a)

\* the length test and the initialisation of result and i
CompareEnter ==
    /\ cmp.pc = "called"
    /\ cmp' = IF Len(cmp.a) # Len(cmp.b)
              THEN [cmp EXCEPT !.pc = "returned", !.value = FALSE]
              ELSE [cmp EXCEPT !.pc = "loop", !.result = 0, !.i = 0]
    /\ UNCHANGED <<handshakeVars, plugin, buffers, pluginCall, keySource, sealed, legacy>>

\* one pass of the loop body: result |= (a[i] || 0) ^ (b[i] || 0); i++
CompareStep ==
    /\ cmp.pc = "loop"
    /\ LoopContinues(cmp)
    /\ cmp' = [cmp EXCEPT
                 !.result = BitOr(@, BitXor(ByteOrZero(cmp.a[cmp.i + 1]),
                                            ByteOrZero(cmp.b[cmp.i + 1]))),
                 !.visited = Append(@, cmp.i),
                 !.i = @ + 1]
    /\ UNCHANGED <<handshakeVars, plugin, buffers, pluginCall, keySource, sealed, legacy>>

\* return result === 0
CompareReturn ==
    /\ cmp.pc = "loop"
    /\ ~LoopContinues(cmp)
    /\ cmp' = [cmp EXCEPT !.pc = "returned", !.value = (cmp.result = 0)]
    /\ UNCHANGED <<handshakeVars, plugin, buffers, pluginCall, keySource, sealed, legacy>>

-----------------------------------------------------------------------------
(* The calls made on one plugin, and what its caller passes *)

\* how many key pairs a caller may hold
NumPluginKeys == 2

\* how many ivs randomBytes may return
NumIvs == 1

\* key pair number n: two 32-byte buffers, as getDerivedKeys returns them
PluginKey(n) ==
    [encryptionKey |-> [i \in 1..KeyLen |-> n],
     authenticationKey |-> [i \in 1..KeyLen |-> 100 + n]]

PluginKeys == { PluginKey(n) : n \in 1..NumPluginKeys }

Ivs == { Iv(n) : n \in 1..NumIvs }

\* messages given to processOutgoingMessage: a string that is not JSON, a
\* string whose text is JSON, an object with type and payload, an object
\* without a type
Messages ==
    { RawText("hello"),
      JsonText(JsNum(123)),
      JsObj([type |-> RawText("test"), payload |-> RawText("hello")]),
      JsObj([value |-> JsNum(42)]) }

\* type strings given to wrapMessage
WrapTypes == { RawText("chat"), RawText("") }

\* payloads given to wrapMessage
WrapPayloads ==
    { RawText("Secret message"), JsObj([value |-> JsNum(42)]), JsNum(0),
      JsNull, RawText("") }

\* a plugin holding key pair k, enabled
KeyedPlugin(k) == NewPlugin(AlgorithmName, Some(k))

\* the envelopes an enabled peer plugin sends
Envelopes ==
    { processOutgoingMessage(KeyedPlugin(k), m, iv).value :
        k \in PluginKeys, m \in Messages, iv \in Ivs }
    \cup
    { wrapMessage(KeyedPlugin(k), t, p, TRUE, Iv(1)).value :
        k \in PluginKeys, t \in WrapTypes, p \in WrapPayloads }

\* the plaintext a peer plugin that is not enabled sends
Plaintexts ==
    { MessageStr(m) : m \in Messages }
    \cup
    { wrapMessage(NewPlugin(AlgorithmName, Undefined), t, p, TRUE, Iv(1)).value :
        t \in WrapTypes, p \in WrapPayloads }

\* bytes with one byte flipped: bytes that no sealing produced
Flipped(bytes) == <<"flipped", bytes>>

\* the object inside an envelope text
EnvelopeObject(text) == text[2][2][2]

\* an envelope text with its algorithm field replaced
WithAlgorithm(text, algorithm) ==
    JsonText(JsObj([EnvelopeObject(text) EXCEPT !.algorithm = algorithm]))

\* an envelope text without an algorithm field
WithoutAlgorithm(text) ==
    JsonText(JsObj([f \in DOMAIN EnvelopeObject(text) \ {"algorithm"}
                      |-> EnvelopeObject(text)[f]]))

\* an envelope text with its encrypted field replaced
WithEncrypted(text, encrypted) ==
    JsonText(JsObj([EnvelopeObject(text) EXCEPT !.encrypted = encrypted]))

\* the encrypted results an attacker makes of the result e: data, iv or tag
\* with a flipped byte, iv or tag or all metadata missing
AlteredResults(e) ==
    { JsObj([e[2] EXCEPT !.data = Base64Text(Flipped(DecodeBase64(@)))]),
      JsObj([e[2] EXCEPT !.metadata =
                JsObj([@[2] EXCEPT !.iv = Base64Text(Flipped(DecodeBase64(@)))])]),
      JsObj([e[2] EXCEPT !.metadata =
                JsObj([@[2] EXCEPT !.tag = Base64Text(Flipped(DecodeBase64(@)))])]),
      JsObj([e[2] EXCEPT !.metadata = JsObj([tag |-> @[2].tag])]),
      JsObj([e[2] EXCEPT !.metadata = JsObj([iv |-> @[2].iv])]),
      JsObj([data |-> e[2].data]) }

\* the algorithm names an envelope may carry instead of the sender's
OtherAlgorithms == { RawText("chacha20-poly1305"), RawText(""), JsNull }

\* the envelopes an attacker makes of the envelope text
AlteredEnvelopes(text) ==
    { WithAlgorithm(text, a) : a \in OtherAlgorithms }
    \cup { WithoutAlgorithm(text) }
    \cup { WithEncrypted(text, e) :
             e \in AlteredResults(EnvelopeObject(text).encrypted) }

\* the envelopes an attacker alters: those of the first key pair and iv
SampleEnvelopes ==
    { processOutgoingMessage(KeyedPlugin(PluginKey(1)), m, Iv(1)).value :
        m \in Messages }

\* everything a plugin may be handed as a received message
IncomingInputs ==
    Envelopes \cup Plaintexts
    \cup UNION { AlteredEnvelopes(e) : e \in SampleEnvelopes }

\* the results of encrypt under any key and iv
SealedResults ==
    { encrypt(KeyedPlugin(k), MessageStr(m), iv).value :
        k \in PluginKeys, m \in Messages, iv \in Ivs }

\* everything decrypt may be handed
DecryptInputs ==
    SealedResults
    \cup UNION { AlteredResults(EnvelopeObject(e).encrypted) :
                   e \in SampleEnvelopes }

\* the record of the plugin's last call
PluginCalled(op, input, type, result, ok, decrypted) ==
    [op |-> op, input |-> input, type |-> type, result |-> result,
     ok |-> ok, decrypted |-> decrypted]

NoPluginCall ==
    PluginCalled("new", JsUndefined, JsUndefined, JsUndefined, TRUE, FALSE)

\* plugin.setKeys(keys) with a key pair the caller holds
SetKeys ==
    \E k \in PluginKeys :
        /\ plugin' = setKeys(plugin, k)
        /\ buffers' = Some(k)
        /\ pluginCall' = PluginCalled("setKeys", JsUndefined, JsUndefined,
                                      JsUndefined, TRUE, FALSE)
        /\ keySource' = "none"
        /\ UNCHANGED <<handshakeVars, cmp, sealed, legacy>>

\* plugin.setEnabled(enabled)
SetEnabled ==
    \E enabled \in BOOLEAN :
        /\ plugin' = setEnabled(plugin, enabled)
        /\ pluginCall' = PluginCalled("setEnabled", JsBool(enabled),
                                      JsUndefined, JsUndefined, TRUE, FALSE)
        /\ UNCHANGED <<handshakeVars, cmp, buffers, keySource, sealed, legacy>>

\* the state of peer hs after destroy() of plugin p, which holds the two
\* exposed key buffers of hs, has filled them: the peer's bundle still
\* refers to the buffers, now zero
FilledByPlugin(p, hs) ==
    IF IsDefined(p.keys) /\ IsDefined(hs.derivedKeys)
    THEN [hs EXCEPT !.derivedKeys =
            Some([Get(@) EXCEPT !.encryptionKey = Fill0(@),
                                !.authenticationKey = Fill0(@)])]
    ELSE hs

\* plugin.destroy(): the fills reach the buffers of the caller and of the
\* peer the keys came from
DestroyPlugin ==
    /\ plugin' = PluginDestroy(plugin)
    /\ buffers' = PluginZeroize(plugin, buffers)
    /\ provider' = IF keySource = "provider"
                   THEN FilledByPlugin(plugin, provider) ELSE provider
    /\ consumer' = IF keySource = "consumer"
                   THEN FilledByPlugin(plugin, consumer) ELSE consumer
    /\ pluginCall' = PluginCalled("destroy", JsUndefined, JsUndefined,
                                  JsUndefined, TRUE, FALSE)
    /\ UNCHANGED <<wire, last, verified, errored, driven, hkdf, cmp, keySource, sealed, legacy>>

\* plugin.encrypt(plaintext)
Encrypt ==
    \E m \in Messages, iv \in Ivs :
        /\ pluginCall' = PluginCalled("encrypt", MessageStr(m), JsUndefined,
                                      encrypt(plugin, MessageStr(m), iv).value,
                                      encrypt(plugin, MessageStr(m), iv).ok,
                                      FALSE)
        /\ UNCHANGED <<handshakeVars, cmp, plugin, buffers, keySource, sealed, legacy>>

\* plugin.decrypt(encrypted)
Decrypt ==
    \E e \in DecryptInputs :
        /\ pluginCall' = PluginCalled("decrypt", e, JsUndefined,
                                      decrypt(plugin, e).value,
                                      decrypt(plugin, e).ok, TRUE)
        /\ UNCHANGED <<handshakeVars, cmp, plugin, buffers, keySource, sealed, legacy>>

\* plugin.processOutgoingMessage(message)
Outgoing ==
    \E m \in Messages, iv \in Ivs :
        /\ pluginCall' = PluginCalled("processOutgoingMessage", m, JsUndefined,
                             processOutgoingMessage(plugin, m, iv).value,
                             processOutgoingMessage(plugin, m, iv).ok, FALSE)
        /\ UNCHANGED <<handshakeVars, cmp, plugin, buffers, keySource, sealed, legacy>>

\* plugin.processIncomingMessage(rawMessage)
IncomingCall ==
    \E raw \in IncomingInputs :
        /\ pluginCall' = PluginCalled("processIncomingMessage", raw, JsUndefined,
                             processIncomingMessage(plugin, raw).value, TRUE,
                             processIncomingMessage(plugin, raw).decrypted)
        /\ UNCHANGED <<handshakeVars, cmp, plugin, buffers, keySource, sealed, legacy>>

\* plugin.wrapMessage(type, payload, encrypt)
Wrap ==
    \E t \in WrapTypes, p \in WrapPayloads, enc \in BOOLEAN, iv \in Ivs :
        /\ pluginCall' = PluginCalled("wrapMessage", p, t,
                             wrapMessage(plugin, t, p, enc, iv).value,
                             wrapMessage(plugin, t, p, enc, iv).ok, FALSE)
        /\ UNCHANGED <<handshakeVars, cmp, plugin, buffers, keySource, sealed, legacy>>

\* plugin.unwrapMessage(rawMessage)
Unwrap ==
    \E raw \in IncomingInputs :
        /\ pluginCall' = PluginCalled("unwrapMessage", raw, JsUndefined,
                             unwrapMessage(plugin, raw), TRUE,
                             processIncomingMessage(plugin, raw).decrypted)
        /\ UNCHANGED <<handshakeVars, cmp, plugin, buffers, keySource, sealed, legacy>>

-----------------------------------------------------------------------------
(* crypto-utils: encrypt and decrypt.  A buffer is a sequence of bytes;    *)
(* the bytes a cipher, a hash or the random source produce are symbolic.   *)
(* Two values of one kind differ in their first byte and agree in every    *)
(* other, so that a comparison of two buffers has one byte to tell them    *)
(* apart by: the first byte of the value x is <<kind, x, 1>>, its byte i   *)
(* is <<kind, <<>>, i>>.                                                   *)

\* the n bytes of the value x
BytesOf(kind, x, n) ==
    [i \in 1..n |-> IF i = 1 THEN <<kind, x, 1>> ELSE <<kind, <<>>, i>>]

\* the length of the iv encrypt draws and decrypt cuts off
IvLength == 16

\* the length of an AES-GCM authentication tag
TagLength == 16

\* SecureRandom.bytes(16): the fresh iv number n
RandomIv(n) == BytesOf("iv", <<n>>, IvLength)

\* the utf8 bytes of a text, a sequence of code points below 2048: one byte
\* for a code point below 128, else two
RECURSIVE Utf8Encode(_)
Utf8Encode(text) ==
    IF text = <<>> THEN <<>>
    ELSE (IF Head(text) < 128
          THEN <<Head(text)>>
          ELSE <<192 + (Head(text) \div 64), 128 + (Head(text) % 64)>>)
         \o Utf8Encode(Tail(text))

\* the text of utf8 bytes; a byte that starts no character decodes to the
\* replacement character U+FFFD
RECURSIVE Utf8Decode(_)
Utf8Decode(bytes) ==
    IF bytes = <<>> THEN <<>>
    ELSE IF Head(bytes) < 128
    THEN <<Head(bytes)>> \o Utf8Decode(Tail(bytes))
    ELSE IF /\ Head(bytes) \in 194..223
            /\ Len(bytes) >= 2
            /\ bytes[2] \in 128..191
    THEN <<(Head(bytes) - 192) * 64 + (bytes[2] - 128)>>
         \o Utf8Decode(SubSeq(bytes, 3, Len(bytes)))
    ELSE <<65533>> \o Utf8Decode(Tail(bytes))

\* buffer.toString('hex') and the hex output of a cipher
ToHex(bytes) == <<"hex", bytes>>

\* Buffer.from(str, 'hex') for a hex string
FromHex(str) == str[2]

\* cipher.update(plain) + cipher.final(): as many bytes as the plaintext has
CipherBytes(key, iv, plain) ==
    BytesOf("ct", GcmCiphertext(key, iv, plain), Len(plain))

\* cipher.getAuthTag() after plain was sealed
TagBytes(key, iv, plain) ==
    BytesOf("tag", GcmTag(key, iv, GcmCiphertext(key, iv, plain)), TagLength)

\* the plaintext of the sealing that ciphertext bytes come from; no bytes
\* come from the sealing of the empty plaintext
SealedPlain(ct) ==
    IF ct # <<>> /\ ct[1][1] = "ct" THEN GcmPlaintext(ct[1][2]) ELSE <<>>

\* decipher.final() authenticates: the bytes are the ciphertext of one
\* sealing under this key and iv, and the tag is the tag of that sealing
OpensBytes(key, iv, ct, tag) ==
    /\ ct = CipherBytes(key, iv, SealedPlain(ct))
    /\ tag = TagBytes(key, iv, SealedPlain(ct))

\* createHmac('sha256', key).update(..).digest() as a buffer of 32 bytes
HmacDigest(key, data) == BytesOf("mac", Hmac(key, data), HashLen)

\* encrypt(text, encryptionKey, authenticationKey) with the iv that
\* SecureRandom.bytes returns: base64 of iv, ciphertext, tag and HMAC
CryptoUtils_encrypt(text, encryptionKey, authenticationKey, iv) ==
    LET encrypted == ToHex(CipherBytes(encryptionKey, iv, Utf8Encode(text)))
        tag == TagBytes(encryptionKey, iv, Utf8Encode(text))
        authTag == HmacDigest(authenticationKey,
                              iv \o FromHex(encrypted) \o tag)
        combined == iv \o FromHex(encrypted) \o tag \o authTag
    IN  IF ~ValidCipherKey(encryptionKey)
        THEN Thrown("Invalid key length")
        ELSE Returned(ToBase64(combined))

\* what a call of decrypt did: its outcome, and whether it got as far as
\* createDecipheriv
Decrypted(result, deciphered) ==
    [result |-> result, deciphered |-> deciphered]

\* a decrypt that deciphers without verifying the HMAC
CryptoUtils_decryptUnverified(encryptedData, encryptionKey, authenticationKey) ==
    LET combined == FromBase64(encryptedData)
        n == Len(combined)
        iv == SubSeq(combined, 1, IvLength)
        tag == SubSeq(combined, n - (TagLength + HashLen) + 1, n - HashLen)
        encrypted == SubSeq(combined, IvLength + 1, n - (TagLength + HashLen))
    IN  IF n < IvLength + TagLength + HashLen
        THEN Decrypted(Thrown("Invalid encrypted data"), FALSE)
        ELSE IF ~ValidCipherKey(encryptionKey)
        THEN Decrypted(Thrown("Invalid key length"), TRUE)
        ELSE IF ~OpensBytes(encryptionKey, iv, encrypted, tag)
        THEN Decrypted(
               Thrown("Unsupported state or unable to authenticate data"),
               TRUE)
        ELSE Decrypted(Returned(Utf8Decode(SealedPlain(encrypted))), TRUE)

\* decrypt(encryptedData, encryptionKey, authenticationKey)
CryptoUtils_decrypt(encryptedData, encryptionKey, authenticationKey) ==
    LET combined == FromBase64(encryptedData)
        n == Len(combined)
        iv == SubSeq(combined, 1, IvLength)
        tag == SubSeq(combined, n - (TagLength + HashLen) + 1, n - HashLen)
        authTag == SubSeq(combined, n - HashLen + 1, n)
        encrypted == SubSeq(combined, IvLength + 1, n - (TagLength + HashLen))
        expectedAuthTag ==
            HmacDigest(authenticationKey, iv \o encrypted \o tag)
    IN  IF n < IvLength + TagLength + HashLen
        THEN Decrypted(Thrown("Invalid encrypted data"), FALSE)
        ELSE IF ~constantTimeCompare(authTag, expectedAuthTag)
        THEN Decrypted(Thrown("Authentication failed"), FALSE)
        ELSE IF ~ValidCipherKey(encryptionKey)
        THEN Decrypted(Thrown("Invalid key length"), TRUE)
        ELSE IF ~OpensBytes(encryptionKey, iv, encrypted, tag)
        THEN Decrypted(
               Thrown("Unsupported state or unable to authenticate data"),
               TRUE)
        ELSE Decrypted(Returned(Utf8Decode(SealedPlain(encrypted))), TRUE)

\* the texts given to encrypt, as code points: '', 'hi', 'é', 'né'
Texts == { <<>>, <<104, 105>>, <<233>>, <<110, 233>> }

\* the ivs SecureRandom.bytes may return
RandomIvs == { RandomIv(n) : n \in 1..NumIvs }

\* a byte with its bits inverted
FlipByte(b) == <<"flip", b, 0>>

\* a buffer with the byte at position i inverted
FlipAt(bytes, i) == [bytes EXCEPT ![i] = FlipByte(bytes[i])]

\* the strings given to decrypt for a string data that encrypt returned:
\* data itself; data with a byte of the iv, of the ciphertext, of the tag or
\* of the HMAC inverted; data without its last byte; the first 63 bytes of
\* data; the empty string
Altered(data) ==
    LET c == FromBase64(data)
        n == Len(c)
    IN  { ToBase64(b) :
            b \in { c, FlipAt(c, 1), FlipAt(c, n - (TagLength + HashLen) + 1),
                    FlipAt(c, n), SubSeq(c, 1, n - 1),
                    SubSeq(c, 1, IvLength + TagLength + HashLen - 1), <<>> }
                  \cup (IF n > IvLength + TagLength + HashLen
                        THEN { FlipAt(c, IvLength + 1) }
                        ELSE {}) }

\* no call of encrypt or decrypt made
NotSealed ==
    [op |-> "none", text |-> <<>>, encryptionKey |-> <<>>,
     authenticationKey |-> <<>>, data |-> ToBase64(<<>>),
     input |-> ToBase64(<<>>), decryptionKey |-> <<>>,
     verificationKey |-> <<>>, result |-> Returned(JsUndefined),
     deciphered |-> FALSE]

-----------------------------------------------------------------------------
(* The deprecated Provider and Consumer *)

\* createHash("sha256").update(..).update(..).digest() of the bytes it was
\* fed, collision-free
Sha256(data) == <<"sha256", data>>

\* the length of the salt startHandshake draws
SaltLength == 16

\* how many salts randomBytes may return to startHandshake
NumSalts == 2

\* randomBytes(16).toString("base64"): the fresh salt number n
RandomSalt(n) == Base64Text(BytesOf("salt", <<n>>, SaltLength))

\* the bytes hash.update(str) feeds for a string: its utf8 encoding, which
\* is different for different strings
StringBytes(str) == <<str>>

\* a key derivation that leaves the salt out
UnsaltedKey(sharedSecret, salt) == Sha256(sharedSecret)

\* the key both classes derive: sha256 of the shared secret, then the salt
SaltedKey(sharedSecret, salt) == Sha256(sharedSecret \o StringBytes(salt))

\* Buffer.from(str, "base64") throws for undefined, and computeSecret throws
\* for bytes that are no point
SecretThrows(peerPublicKeyBase64) ==
    \/ ~IsString(peerPublicKeyBase64)
    \/ ~IsValidPublicKey(DecodeBase64(peerPublicKeyBase64))

\* Provider.startHandshake(socket): the string given to socket.send
Provider_startHandshake(priv, salt) ==
    JSON_stringify(JsObj([type |-> RawText("public-key"),
                          publicKey |-> Base64Text(GetPublicKey(priv)),
                          salt |-> salt]))

\* Provider.deriveSharedKey(peerPublicKeyBase64, salt)
Provider_deriveSharedKey(priv, peerPublicKeyBase64, salt) ==
    IF SecretThrows(peerPublicKeyBase64)
    THEN Thrown("deriveSharedKey")
    ELSE Returned(SaltedKey(
             ComputeSecret(priv, DecodeBase64(peerPublicKeyBase64)), salt))

\* a new Consumer(): a key pair and no shared key
NewLegacyConsumer(priv) == [priv |-> priv, sharedKey |-> Undefined]

\* what a call on a Consumer did: the consumer after it and its outcome
ConsumerCalled(c, result) == [consumer |-> c, result |-> result]

\* Consumer.deriveSharedKey(peerPublicKeyBase64, salt)
Consumer_deriveSharedKey(c, peerPublicKeyBase64, salt) ==
    IF SecretThrows(peerPublicKeyBase64)
    THEN ConsumerCalled(c, Thrown("deriveSharedKey"))
    ELSE ConsumerCalled(
           [c EXCEPT !.sharedKey =
              Some(SaltedKey(
                 ComputeSecret(c.priv, DecodeBase64(peerPublicKeyBase64)),
                 salt))],
           Returned(SaltedKey(
              ComputeSecret(c.priv, DecodeBase64(peerPublicKeyBase64)),
              salt)))

\* Consumer.getSharedKey()
Consumer_getSharedKey(c) == c.sharedKey

\* Consumer._normalize(raw): the parsed text of a string, null for text
\* that is not JSON, and any other value as it is
Consumer_normalize(raw) ==
    IF IsString(raw)
    THEN (IF JSON_parse(raw).ok THEN JSON_parse(raw).value ELSE JsNull)
    ELSE raw

\* Consumer.handleMessage(raw)
Consumer_handleMessage(c, raw) ==
    LET data == Consumer_normalize(raw)
    IN  IF ~Truthy(data)
        THEN ConsumerCalled(c, Returned(JsUndefined))
        ELSE IF GetProp(data, "type") # RawText("public-key")
        THEN ConsumerCalled(c, Returned(JsUndefined))
        ELSE IF ~Truthy(GetProp(data, "salt"))
        THEN ConsumerCalled(c, Thrown("Handshake missing salt"))
        ELSE ConsumerCalled(
               Consumer_deriveSharedKey(c, GetProp(data, "publicKey"),
                                        GetProp(data, "salt")).consumer,
               IF Consumer_deriveSharedKey(c, GetProp(data, "publicKey"),
                                           GetProp(data, "salt")).result.ok
               THEN Returned(JsUndefined)
               ELSE Thrown("deriveSharedKey"))

\* a 'public-key' message with the given public key and no salt field
SaltlessMessage(priv) ==
    JSON_stringify(JsObj([type |-> RawText("public-key"),
                          publicKey |-> Base64Text(GetPublicKey(priv))]))

\* text that JSON.parse rejects
UnparseableInputs == { RawText("not json"), RawText("") }

\* what handleMessage is given when the socket carries the string sent: the
\* string, the object it parses to, a message without a salt field, with an
\* empty salt, without a public key, of another type, from another key
\* pair, the text 'null', and text that is not JSON
LegacyInputs(sent) ==
    (IF sent = JsUndefined THEN {} ELSE { sent, JSON_parse(sent).value })
    \cup { SaltlessMessage(ProviderPriv), SaltlessMessage(AttackerPriv) }
    \cup { JSON_stringify(JsObj([type |-> RawText("public-key"),
              publicKey |-> Base64Text(GetPublicKey(ProviderPriv)),
              salt |-> RawText("")])),
           JSON_stringify(JsObj([type |-> RawText("public-key"),
              salt |-> RandomSalt(1)])),
           JSON_stringify(JsObj([type |-> RawText("hello")])),
           Provider_startHandshake(AttackerPriv, RandomSalt(1)),
           JsonText(JsNull) }
    \cup UnparseableInputs

\* a salt string with its first byte inverted, as base64
TamperedSalt(salt) == Base64Text(FlipAt(DecodeBase64(salt), 1))

\* the salt of the message sent
SentSalt(sent) == GetProp(JSON_parse(sent).value, "salt")

\* a fresh Provider and a fresh Consumer, nothing sent, handled or derived
NewLegacy ==
    [consumer |-> NewLegacyConsumer(ConsumerPriv),
     sent |-> JsUndefined,
     op |-> "new",
     handled |-> JsUndefined,
     result |-> Returned(JsUndefined),
     usedSalt |-> JsUndefined,
     providerKey |-> Undefined]

\* no comparison in progress, a plugin constructed without keys, no call made
UtilitiesIdle ==
    /\ cmp = NotCompared
    /\ plugin = NewPlugin(AlgorithmName, Undefined)
    /\ buffers = Undefined
    /\ pluginCall = NoPluginCall
    /\ keySource = "none"
    /\ sealed = NotSealed
    /\ legacy = NewLegacy

-----------------------------------------------------------------------------
(* State machine *)

NoResult == Result("none", FALSE)

\* no direct call of HKDF.derive has been made
NotDerived ==
    [status |-> "none", length |-> 0, error |-> "", bytes |-> 0, counters |-> <<>>]

Init ==
    /\ \E sid \in SessionIds, nonce \in ProviderNonces :
          provider = NewProvider(ProviderPriv, sid, nonce)
    /\ \E nonce \in ConsumerNonces :
          consumer = NewConsumer(ConsumerPriv, nonce)
    /\ wire = {}
    /\ last = [peer |-> "none", op |-> "new", type |-> "", result |-> NoResult]
    /\ verified = [provider |-> Undefined, consumer |-> Undefined]
    /\ errored = [provider |-> FALSE, consumer |-> FALSE]
    /\ driven = "none"
    /\ hkdf = NotDerived
    /\ UtilitiesIdle

\* provider.startHandshake(socket): socket.send of the handshake-init
SendInit ==
    /\ wire' = wire \cup {ProviderInitMessage(provider)}
    /\ last' = [peer |-> "provider", op |-> "start",
                type |-> "", result |-> NoResult]
    /\ UNCHANGED <<provider, consumer, verified, errored, hkdf, utilVars>>

\* one call consumer.handleMessage(m); verified records the bundle under
\* which a MAC was accepted, errored that a call has returned an error
ConsumerReturns(m, r) ==
    /\ consumer' = r.state
    /\ last' = [peer |-> "consumer", op |-> "handle", type |-> m.type,
                result |-> r.result]
    /\ verified' = IF r.result.confirmed
                   THEN [verified EXCEPT !.consumer = r.state.derivedKeys]
                   ELSE verified
    /\ errored' = [errored EXCEPT !.consumer = @ \/ r.result.type = "error"]
    /\ UNCHANGED <<provider, hkdf, utilVars>>

ConsumerCall(m) == ConsumerReturns(m, handleMessage(consumer, m))

\* one call provider.handleResponse(m)
ProviderReturns(m, r) ==
    /\ provider' = r.state
    /\ last' = [peer |-> "provider", op |-> "handle", type |-> m.type,
                result |-> r.result]
    /\ verified' = IF r.result.confirmed
                   THEN [verified EXCEPT !.provider = r.state.derivedKeys]
                   ELSE verified
    /\ errored' = [errored EXCEPT !.provider = @ \/ r.result.type = "error"]
    /\ UNCHANGED <<consumer, hkdf, utilVars>>

ProviderCall(m) == ProviderReturns(m, handleResponse(provider, m))

\* what the consumer's owner sends after handleMessage(m) returned result
ConsumerSends(m, result) ==
    IF m.type = "handshake-init" /\ result.type = "handshake-response"
    THEN {Get(result.response)}
    ELSE IF m.type = "key-confirmation-request" /\ result.confirmed
    THEN {Get(result.response)}
    ELSE {}

\* what the provider's owner sends after handleResponse(m) returned result
ProviderSends(m, result) ==
    IF m.type = "handshake-response" /\ result.type = "send-confirmation"
    THEN {KeyConfirmationRequest(result.confirmationMac)}
    ELSE {}

\* the consumer's socket delivers a message of the given type that the
\* provider's side sent, and the owner sends the answer
ConsumerReceiveOf(type) ==
    \E m \in wire :
        /\ m.type = type
        /\ ConsumerCall(m)
        /\ wire' = wire \cup ConsumerSends(m, handleMessage(consumer, m).result)
        /\ UNCHANGED driven

ConsumerReceive ==
    \E type \in {"handshake-init", "key-confirmation-request"} :
        ConsumerReceiveOf(type)

\* the provider's socket delivers a message of the given type that the
\* consumer's side sent, and the owner sends the answer
ProviderReceiveOf(type) ==
    \E m \in wire :
        /\ m.type = type
        /\ ProviderCall(m)
        /\ wire' = wire \cup ProviderSends(m, handleResponse(provider, m).result)
        /\ UNCHANGED driven

ProviderReceive ==
    \E type \in {"handshake-response", "key-confirmation"} :
        ProviderReceiveOf(type)

\* The peers share no state.  In the runs of Spec one peer (driven) is
\* called in any order with any input while the other stays as constructed;
\* driven is "none" until the first call.
Drive(peer) == driven \in {"none", peer} /\ driven' = peer

\* consumer.handleMessage called with any input
ConsumerHandle ==
    /\ Drive("consumer")
    /\ \E m \in ConsumerInputs : ConsumerCall(m) /\ UNCHANGED wire

\* provider.handleResponse called with any input
ProviderHandle ==
    /\ Drive("provider")
    /\ \E m \in ProviderInputs : ProviderCall(m) /\ UNCHANGED wire

\* provider.startHandshake called at any time
ProviderStart == Drive("provider") /\ SendInit

\* provider.destroy(): the fills reach a plugin and a caller holding the
\* provider's key buffers
DestroyProvider ==
    /\ Drive("provider")
    /\ provider' = ProviderDestroy(provider)
    /\ last' = [peer |-> "provider", op |-> "destroy", type |-> "",
                result |-> NoResult]
    /\ plugin' = IF keySource = "provider"
                 THEN [plugin EXCEPT !.keys = FilledByPeer(provider, @)]
                 ELSE plugin
    /\ buffers' = IF keySource = "provider"
                  THEN FilledByPeer(provider, buffers) ELSE buffers
    /\ UNCHANGED <<consumer, wire, verified, errored, hkdf,
                   cmp, pluginCall, keySource, sealed, legacy>>

\* consumer.destroy(), likewise
DestroyConsumer ==
    /\ Drive("consumer")
    /\ consumer' = ConsumerDestroy(consumer)
    /\ last' = [peer |-> "consumer", op |-> "destroy", type |-> "",
                result |-> NoResult]
    /\ plugin' = IF keySource = "consumer"
                 THEN [plugin EXCEPT !.keys = FilledByPeer(consumer, @)]
                 ELSE plugin
    /\ buffers' = IF keySource = "consumer"
                  THEN FilledByPeer(consumer, buffers) ELSE buffers
    /\ UNCHANGED <<provider, wire, verified, errored, hkdf,
                   cmp, pluginCall, keySource, sealed, legacy>>

\* honest runs: the four messages travel unmodified between the two peers
StartHandshake == SendInit /\ UNCHANGED driven

HonestNext == StartHandshake \/ ConsumerReceive \/ ProviderReceive

HonestSpec == Init /\ [][HonestNext]_vars

\* honest runs in which startHandshake is called and each of the four
\* messages, once sent, is eventually delivered
LiveSpec ==
    /\ Init /\ [][HonestNext]_vars
    /\ WF_vars(StartHandshake)
    /\ WF_vars(ConsumerReceiveOf("handshake-init"))
    /\ WF_vars(ProviderReceiveOf("handshake-response"))
    /\ WF_vars(ConsumerReceiveOf("key-confirmation-request"))
    /\ WF_vars(ProviderReceiveOf("key-confirmation"))

\* any sequence of startHandshake / handle / destroy calls with any input
Next ==
    \/ ProviderStart
    \/ ConsumerHandle
    \/ ProviderHandle
    \/ DestroyProvider
    \/ DestroyConsumer

Spec == Init /\ [][Next]_vars

\* Runs of one session over a network that may alter a nonce in transit:
\* startHandshake is called once, every message is delivered at most once,
\* and before its delivery the providerNonce of the handshake-init or the
\* consumerNonce of the handshake-response may be replaced.
StartOnce == last.op = "new" /\ SendInit /\ UNCHANGED driven

\* the nonce values the network may write into a message
AlteredNonces == ProviderNonces \cup ConsumerNonces \cup {AttackerNonce}

AlterInit ==
    \E m \in wire, n \in AlteredNonces :
        /\ m.type = "handshake-init"
        /\ ToBase64(n) # m.providerNonce
        /\ wire' = (wire \ {m}) \cup {[m EXCEPT !.providerNonce = ToBase64(n)]}
        /\ UNCHANGED <<provider, consumer, last, verified, errored, driven, hkdf, utilVars>>

AlterResponse ==
    \E m \in wire, n \in AlteredNonces :
        /\ m.type = "handshake-response"
        /\ ToBase64(n) # m.consumerNonce
        /\ wire' = (wire \ {m}) \cup {[m EXCEPT !.consumerNonce = ToBase64(n)]}
        /\ UNCHANGED <<provider, consumer, last, verified, errored, driven, hkdf, utilVars>>

\* the consumer's socket delivers a message in transit, which leaves the
\* network, and the owner sends the answer
ConsumerTake ==
    \E m \in wire :
        /\ m.type \in {"handshake-init", "key-confirmation-request"}
        /\ ConsumerCall(m)
        /\ wire' = (wire \ {m}) \cup ConsumerSends(m, handleMessage(consumer, m).result)
        /\ UNCHANGED driven

ProviderTake ==
    \E m \in wire :
        /\ m.type \in {"handshake-response", "key-confirmation"}
        /\ ProviderCall(m)
        /\ wire' = (wire \ {m}) \cup ProviderSends(m, handleResponse(provider, m).result)
        /\ UNCHANGED driven

TamperNext ==
    \/ StartOnce
    \/ AlterInit
    \/ AlterResponse
    \/ ConsumerTake
    \/ ProviderTake

TamperSpec == Init /\ [][TamperNext]_vars

\* Direct calls HKDF.derive(ikm, salt, info, L), as the tests make them,
\* with every length from 0 to MaxLength, which lies above the largest
\* length MaxBlocks * HashLen that HKDF.expand serves
MaxLength == 8200

Lengths == 0..MaxLength

\* utf8 of 'test', 'salt' and 'info'
TestIkm == <<116, 101, 115, 116>>

TestSalt == <<115, 97, 108, 116>>

TestInfo == <<105, 110, 102, 111>>

\* what HKDF.derive(ikm, salt, info, length) did, its blocks being given
DeriveOutcome(blocks, length) ==
    [status |-> "returned", length |-> length, error |-> "",
     bytes |-> DerivedByteLength(blocks, length),
     counters |-> BlockCounters(blocks)]

\* HKDF.derive(ikm, salt, info, length) called directly
HKDF_call(ikm, salt, info, length) ==
    IF HKDF_tooLarge(length)
    THEN [status |-> "thrown", length |-> length,
          error |-> "HKDF: requested length too large",
          bytes |-> 0, counters |-> <<>>]
    ELSE DeriveOutcome(HKDF_expand(HKDF_extract(salt, ikm), info, length), length)

\* a call is about to be made with some length
HkdfInit ==
    /\ provider = NewProvider(ProviderPriv, ToBase64(<<1>>), <<1>>)
    /\ consumer = NewConsumer(ConsumerPriv, <<NumNonces + 1>>)
    /\ wire = {}
    /\ last = [peer |-> "none", op |-> "new", type |-> "", result |-> NoResult]
    /\ verified = [provider |-> Undefined, consumer |-> Undefined]
    /\ errored = [provider |-> FALSE, consumer |-> FALSE]
    /\ driven = "none"
    /\ \E length \in Lengths :
          hkdf = [NotDerived EXCEPT !.status = "requested", !.length = length]
    /\ UtilitiesIdle

HkdfDerive ==
    /\ hkdf.status = "requested"
    /\ hkdf' = HKDF_call(TestIkm, TestSalt, TestInfo, hkdf.length)
    /\ UNCHANGED <<provider, consumer, wire, last, verified, errored, driven,
                 utilVars>>

HkdfSpec == HkdfInit /\ [][HkdfDerive]_vars

-----------------------------------------------------------------------------
(* Runs of the utilities on their own *)

\* two fresh peers on which nothing is called
HandshakeIdle ==
    /\ provider = NewProvider(ProviderPriv, ToBase64(<<1>>), <<1>>)
    /\ consumer = NewConsumer(ConsumerPriv, <<NumNonces + 1>>)
    /\ wire = {}
    /\ last = [peer |-> "none", op |-> "new", type |-> "", result |-> NoResult]
    /\ verified = [provider |-> Undefined, consumer |-> Undefined]
    /\ errored = [provider |-> FALSE, consumer |-> FALSE]
    /\ driven = "none"
    /\ hkdf = NotDerived

\* constantTimeCompare(a, b) has been called with two buffers
CompareInit ==
    /\ HandshakeIdle
    /\ plugin = NewPlugin(AlgorithmName, Undefined)
    /\ buffers = Undefined
    /\ pluginCall = NoPluginCall
    /\ keySource = "none"
    /\ sealed = NotSealed
    /\ legacy = NewLegacy
    /\ \E a \in CompareBuffers, b \in CompareBuffers :
          cmp = [NotCompared EXCEPT !.pc = "called", !.a = a, !.b = b]

CompareNext == CompareEnter \/ CompareStep \/ CompareReturn

CompareSpec == CompareInit /\ [][CompareNext]_vars

\* new MessageEncryptionPlugin(keys) with or without keys
PluginInit ==
    /\ HandshakeIdle
    /\ cmp = NotCompared
    /\ \E keys \in {Undefined} \cup { Some(k) : k \in PluginKeys } :
          /\ plugin = NewPlugin(AlgorithmName, keys)
          /\ buffers = keys
    /\ pluginCall = NoPluginCall
    /\ keySource = "none"
    /\ sealed = NotSealed
    /\ legacy = NewLegacy

\* any sequence of calls on the plugin
PluginNext ==
    \/ SetKeys
    \/ SetEnabled
    \/ DestroyPlugin
    \/ Encrypt
    \/ Decrypt
    \/ Outgoing
    \/ IncomingCall
    \/ Wrap
    \/ Unwrap

PluginSpec == PluginInit /\ [][PluginNext]_vars

\* Runs in which a plugin is built from the keys of a confirmed peer: the
\* handshake runs as in the honest runs, then the owner of a peer calls
\* getDerivedKeys() and passes the result to new MessageEncryptionPlugin,
\* and from then on a peer and the plugin are destroyed and the plugin
\* encrypts, in any order.

\* keys = peer.getDerivedKeys(); new MessageEncryptionPlugin(keys): setKeys
\* stores the object, whose two Buffers are the peer's own
BuildPluginFrom(hs, peer) ==
    /\ keySource = "none"
    /\ IsDefined(getDerivedKeys(hs))
    /\ plugin' = NewPlugin(AlgorithmName,
          Some([encryptionKey |->
                   KeyBuffer(Get(getDerivedKeys(hs)).encryptionKey),
                authenticationKey |->
                   KeyBuffer(Get(getDerivedKeys(hs)).authenticationKey)]))
    /\ buffers' = plugin'.keys
    /\ keySource' = peer
    /\ pluginCall' = NoPluginCall
    /\ UNCHANGED <<handshakeVars, cmp, sealed, legacy>>

BuildPlugin ==
    \/ BuildPluginFrom(provider, "provider")
    \/ BuildPluginFrom(consumer, "consumer")

\* a step of the handshake, before the plugin is built
HandshakeStep == keySource = "none" /\ HonestNext

\* the plugin has been built from a peer's keys
PluginBuilt == keySource # "none"

SharedNext ==
    \/ HandshakeStep
    \/ BuildPlugin
    \/ PluginBuilt /\ DestroyProvider
    \/ PluginBuilt /\ DestroyConsumer
    \/ PluginBuilt /\ DestroyPlugin
    \/ PluginBuilt /\ Encrypt

SharedSpec == Init /\ [][SharedNext]_vars

-----------------------------------------------------------------------------
(* Runs of encrypt and decrypt of crypto-utils: texts are encrypted under *)
(* key pairs as generateKeys() returns them, and what encrypt returned is *)
(* decrypted, as it is or altered, under the same or another key.         *)

CryptoInit == HandshakeIdle /\ UtilitiesIdle

\* data = encrypt(text, encryptionKey, authenticationKey)
CryptoUtilsEncrypt ==
    /\ \E text \in Texts, k \in PluginKeys, iv \in RandomIvs :
          sealed' =
             [NotSealed EXCEPT
                !.op = "encrypt",
                !.text = text,
                !.encryptionKey = k.encryptionKey,
                !.authenticationKey = k.authenticationKey,
                !.data = CryptoUtils_encrypt(text, k.encryptionKey,
                                             k.authenticationKey, iv).value,
                !.result = CryptoUtils_encrypt(text, k.encryptionKey,
                                               k.authenticationKey, iv)]
    /\ UNCHANGED <<handshakeVars, cmp, plugin, buffers, pluginCall, keySource,
                   legacy>>

\* decrypt(input, decryptionKey, verificationKey) of what encrypt returned
\* or of an alteration of it
CryptoUtilsDecrypt ==
    /\ sealed.op # "none"
    /\ \E input \in Altered(sealed.data), k \in PluginKeys, a \in PluginKeys :
          \E d \in { CryptoUtils_decrypt(input, k.encryptionKey,
                                         a.authenticationKey) } :
             sealed' = [sealed EXCEPT
                          !.op = "decrypt",
                          !.input = input,
                          !.decryptionKey = k.encryptionKey,
                          !.verificationKey = a.authenticationKey,
                          !.result = d.result,
                          !.deciphered = d.deciphered]
    /\ UNCHANGED <<handshakeVars, cmp, plugin, buffers, pluginCall, keySource,
                   legacy>>

CryptoNext == CryptoUtilsEncrypt \/ CryptoUtilsDecrypt

CryptoSpec == CryptoInit /\ [][CryptoNext]_vars

-----------------------------------------------------------------------------
(* Runs of the deprecated Provider and Consumer: the provider starts      *)
(* handshakes on a socket, the consumer is given what the socket carries  *)
(* or anything else, and the provider derives its key from the consumer's *)
(* public key and a salt.                                                 *)

LegacyInit == HandshakeIdle /\ UtilitiesIdle

\* provider.startHandshake(socket)
LegacyStartHandshake ==
    /\ \E n \in 1..NumSalts :
          legacy' = [legacy EXCEPT
                       !.sent = Provider_startHandshake(ProviderPriv,
                                                        RandomSalt(n)),
                       !.op = "startHandshake",
                       !.result = Returned(JsUndefined)]
    /\ UNCHANGED <<handshakeVars, cmp, plugin, buffers, pluginCall, keySource,
                   sealed>>

\* consumer.handleMessage(raw)
LegacyHandleMessage ==
    /\ \E raw \in LegacyInputs(legacy.sent) :
          legacy' = [legacy EXCEPT
                       !.consumer =
                          Consumer_handleMessage(legacy.consumer, raw).consumer,
                       !.op = "handleMessage",
                       !.handled = raw,
                       !.result =
                          Consumer_handleMessage(legacy.consumer, raw).result]
    /\ UNCHANGED <<handshakeVars, cmp, plugin, buffers, pluginCall, keySource,
                   sealed>>

\* provider.deriveSharedKey(consumer public key, salt) with the salt sent,
\* the salt sent with a byte inverted, or any salt
LegacyDeriveSharedKey ==
    /\ legacy.sent # JsUndefined
    /\ \E salt \in { SentSalt(legacy.sent), TamperedSalt(SentSalt(legacy.sent)) }
                     \cup { RandomSalt(n) : n \in 1..NumSalts } :
          legacy' = [legacy EXCEPT
                       !.op = "deriveSharedKey",
                       !.usedSalt = salt,
                       !.result = Provider_deriveSharedKey(ProviderPriv,
                                     Base64Text(GetPublicKey(ConsumerPriv)),
                                     salt),
                       !.providerKey =
                          Some(Provider_deriveSharedKey(ProviderPriv,
                                  Base64Text(GetPublicKey(ConsumerPriv)),
                                  salt).value)]
    /\ UNCHANGED <<handshakeVars, cmp, plugin, buffers, pluginCall, keySource,
                   sealed>>

LegacyNext ==
    \/ LegacyStartHandshake
    \/ LegacyHandleMessage
    \/ LegacyDeriveSharedKey

LegacySpec == LegacyInit /\ [][LegacyNext]_vars

-----------------------------------------------------------------------------
(* Properties *)

\* C1 (key agreement): in every honest run, whenever getDerivedKeys() is
\* non-null on both peers, the two encryptionKey values are equal and the
\* two authenticationKey values are equal.
KeyAgreement ==
    (IsDefined(getDerivedKeys(provider)) /\ IsDefined(getDerivedKeys(consumer)))
    => /\ Get(getDerivedKeys(provider)).encryptionKey
            = Get(getDerivedKeys(consumer)).encryptionKey
       /\ Get(getDerivedKeys(provider)).authenticationKey
            = Get(getDerivedKeys(consumer)).authenticationKey

\* both peers expose keys after the fourth message
KeyAgreementWitness ==
    /\ IsDefined(getDerivedKeys(provider))
    /\ IsDefined(getDerivedKeys(consumer))
    /\ last.result.type = "handshake-complete"

\* C2 (honest-run completion): when startHandshake is called and every
\* message sent is eventually delivered unmodified, eventually both peers
\* report isHandshakeConfirmed(), and no handle call returns type 'error'.
HonestCompletion ==
    /\ <>(isHandshakeConfirmed(provider) /\ isHandshakeConfirmed(consumer))
    /\ [](last.result.type # "error")

\* both peers are confirmed, the provider by the consumer's key-confirmation
HonestCompletionWitness ==
    /\ isHandshakeConfirmed(provider)
    /\ isHandshakeConfirmed(consumer)
    /\ last.peer = "provider"
    /\ last.type = "key-confirmation"

\* C3 (pre-confirm secrecy): in every reachable state of either peer,
\* getDerivedKeys() returns null whenever isHandshakeConfirmed() is false,
\* also when the key bundle has already been derived.
PreConfirmSecrecy ==
    /\ ~isHandshakeConfirmed(provider) => getDerivedKeys(provider) = Undefined
    /\ ~isHandshakeConfirmed(consumer) => getDerivedKeys(consumer) = Undefined

\* a peer holds a derived bundle and is not confirmed
PreConfirmSecrecyWitness ==
    \/ /\ IsDefined(provider.derivedKeys)
       /\ ~isHandshakeConfirmed(provider)
       /\ last.result.type = "send-confirmation"
    \/ /\ IsDefined(consumer.derivedKeys)
       /\ ~isHandshakeConfirmed(consumer)
       /\ last.result.type = "handshake-response"

\* C4 (only confirmed keys are exposed): in every reachable state of either
\* peer, the bundle getDerivedKeys() exposes is the bundle under which that
\* peer verified the other side's confirmation MAC.
OnlyVerifiedKeysExposed ==
    /\ IsDefined(getDerivedKeys(provider))
          => provider.derivedKeys = verified.provider
    /\ IsDefined(getDerivedKeys(consumer))
          => consumer.derivedKeys = verified.consumer

\* the two key-confirmation failures
MitmErrors ==
    { "Key confirmation failed - potential MITM attack",
      "Provider key confirmation failed - potential MITM attack" }

\* the consumer holds what it computes the expected MAC from
ConsumerHoldsTranscript ==
    /\ IsDefined(consumer.derivedKeys)
    /\ IsDefined(consumer.providerNonce)
    /\ IsDefined(consumer.providerPublicKey)

\* m carries a MAC byte-equal to the MAC the consumer computes itself
ConsumerMacMatches(m) ==
    /\ ConsumerHoldsTranscript
    /\ IsDefined(m.confirmationMac)
    /\ FromBase64(m.confirmationMac)
         = Hmac(Get(consumer.derivedKeys).confirmationKey,
                ConsumerExpectedData(consumer))

\* the provider holds what it computes the expected MAC from
ProviderHoldsTranscript ==
    IsDefined(provider.derivedKeys) /\ IsDefined(provider.consumerNonce)

\* m carries a MAC byte-equal to the MAC the provider computes itself
ProviderMacMatches(m) ==
    /\ ProviderHoldsTranscript
    /\ IsDefined(m.confirmationMac)
    /\ IsDefined(m.publicKey)
    /\ FromBase64(m.confirmationMac)
         = Hmac(Get(provider.derivedKeys).confirmationKey,
                ProviderExpectedData(provider, FromBase64(m.publicKey)))

\* the call handled m, of a confirmation type, and returned r from state hs:
\* it confirms only on a matching MAC; any other MAC gives the MITM error,
\* the confirmed flag false afterwards and nothing outbound
MacRuleAsClaimed(hs, confirmation, matches, m, r) ==
    /\ (r.state.confirmed /\ ~hs.confirmed) => (m.type = confirmation /\ matches)
    /\ (m.raw = "json" /\ m.type = confirmation /\ ~matches)
          => /\ r.result.type = "error"
             /\ r.result.error \in MitmErrors
             /\ ~r.state.confirmed
             /\ r.result.response = Undefined

MacRule(hs, confirmation, holds, matches, m, r) ==
    /\ (r.state.confirmed /\ ~hs.confirmed) => (m.type = confirmation /\ matches)
    /\ (m.raw = "json" /\ m.type = confirmation /\ ~matches)
          => /\ r.result.type = "error"
             /\ ~r.result.confirmed
             /\ r.result.response = Undefined
             /\ r.state = hs
             /\ (holds /\ IsDefined(m.confirmationMac)
                    /\ (confirmation = "key-confirmation" => IsDefined(m.publicKey)))
                   => r.result.error \in MitmErrors

FailedIsTerminal ==
    /\ errored.provider
          => /\ ~isHandshakeConfirmed(provider)
             /\ ~IsDefined(provider.derivedKeys)
             /\ \A m \in ProviderInputs :
                   handleResponse(provider, m).result.type = "error"
    /\ errored.consumer
          => /\ ~isHandshakeConfirmed(consumer)
             /\ ~IsDefined(consumer.derivedKeys)
             /\ \A m \in ConsumerInputs :
                   handleMessage(consumer, m).result.type = "error"

\* the message type the consumer's handshake state expects next, if any
ConsumerExpects(type) ==
    IF consumer = NewConsumer(consumer.ecdh, consumer.consumerNonce)
    THEN type = "handshake-init"
    ELSE IF IsDefined(consumer.derivedKeys) /\ ~consumer.confirmed
    THEN type = "key-confirmation-request"
    ELSE FALSE

\* the message type the provider's handshake state expects next, if any
ProviderExpects(type) ==
    IF provider = NewProvider(provider.ecdh, provider.sessionId, provider.providerNonce)
    THEN type = "handshake-response"
    ELSE IF IsDefined(provider.derivedKeys) /\ ~provider.confirmed
    THEN type = "key-confirmation"
    ELSE FALSE

\* the call returned r from state hs: an error, nothing outbound, and the
\* stored state not overwritten
Rejected(hs, r) ==
    /\ r.result.type = "error"
    /\ r.result.response = Undefined
    /\ r.result.confirmationMac = Undefined
    /\ r.state = hs

\* C7 (state-directed acceptance): a message whose type is not the next
\* expected one for the peer's state is rejected with an error, produces no
\* outbound message and overwrites nothing.
StateDirectedAcceptance ==
    /\ \A m \in ConsumerInputs :
          (m.raw = "json" /\ ~ConsumerExpects(m.type))
             => Rejected(consumer, handleMessage(consumer, m))
    /\ \A m \in ProviderInputs :
          (m.raw = "json" /\ ~ProviderExpects(m.type))
             => Rejected(provider, handleResponse(provider, m))

\* C8 (session swap rejection): a handshake-response whose sessionId differs
\* from the provider's own returns type 'error' with 'Session ID mismatch',
\* confirmed false and no confirmationMac, and stores no consumer nonce,
\* shared secret or keys: the handshake state is left as it was.
SessionSwapRejected ==
    \A m \in ProviderInputs :
        (m.raw = "json" /\ m.type = "handshake-response"
            /\ m.sessionId # getSessionId(provider))
           => /\ handleResponse(provider, m).result = ErrorResult("Session ID mismatch")
              /\ handleResponse(provider, m).state = provider

\* the provider has just rejected a response for its session id
SessionSwapRejectedWitness ==
    /\ last.peer = "provider"
    /\ last.type = "handshake-response"
    /\ last.result.error = "Session ID mismatch"

\* C9 (session binding on every message): once a peer holds a session id,
\* every inbound message carrying a different sessionId is rejected.
SessionBoundOnEveryMessage ==
    /\ \A m \in ProviderInputs :
          (m.raw = "json" /\ m.type \in {"handshake-response", "key-confirmation"}
              /\ m.sessionId # getSessionId(provider))
             => handleResponse(provider, m).result.type = "error"
    /\ \A m \in ConsumerInputs :
          (m.raw = "json" /\ m.type \in {"handshake-init", "key-confirmation-request"}
              /\ IsDefined(getSessionId(consumer))
              /\ IsDefined(m.sessionId)
              /\ m.sessionId # getSessionId(consumer))
             => handleMessage(consumer, m).result.type = "error"

\* C10 (transcript binding): the provider never accepts as MAC_R a
\* key-confirmation that carries its own MAC_I = HMAC(K, N_I||N_R||PK_I||PK_R),
\* and the consumer never accepts as MAC_I a key-confirmation-request that
\* carries its own MAC_R = HMAC(K, N_R||N_I||PK_R||PK_I).
TranscriptBinding ==
    /\ \A m \in ProviderInputs :
          (/\ m.type = "key-confirmation"
           /\ ProviderHoldsTranscript
           /\ IsDefined(m.confirmationMac) /\ IsDefined(m.publicKey)
           /\ FromBase64(m.confirmationMac)
                = Hmac(Get(provider.derivedKeys).confirmationKey,
                       ProviderConfirmationData(provider, FromBase64(m.publicKey))))
             => /\ handleResponse(provider, m).result.error \in MitmErrors
                /\ ~handleResponse(provider, m).state.confirmed
    /\ \A m \in ConsumerInputs :
          (/\ m.type = "key-confirmation-request"
           /\ ConsumerHoldsTranscript
           /\ IsDefined(m.confirmationMac)
           /\ FromBase64(m.confirmationMac)
                = Hmac(Get(consumer.derivedKeys).confirmationKey,
                       ConsumerConfirmationData(consumer)))
             => /\ handleMessage(consumer, m).result.error \in MitmErrors
                /\ ~handleMessage(consumer, m).state.confirmed

\* a peer has stored a nonce that is not the one the other peer drew: the
\* providerNonce of the handshake-init or the consumerNonce of the
\* handshake-response was altered in transit
NonceAltered ==
    \/ /\ IsDefined(consumer.providerNonce)
       /\ Get(consumer.providerNonce) # provider.providerNonce
    \/ /\ IsDefined(provider.consumerNonce)
       /\ Get(provider.consumerNonce) # consumer.consumerNonce

VersionCheck ==
    \A m \in InitInputs :
        m.version # Some(1)
        => /\ handleMessage(consumer, m).result.type = "error"
           /\ handleMessage(consumer, m).result.error = "Unsupported protocol version"
           /\ ~handleMessage(consumer, m).result.confirmed
           /\ handleMessage(consumer, m).result.response = Undefined
           /\ handleMessage(consumer, m).state = consumer

\* the Responder has just refused a handshake-init for its version
VersionCheckWitness ==
    /\ last.peer = "consumer"
    /\ last.type = "handshake-init"
    /\ last.result.error = "Unsupported protocol version"

\* supportedCiphers contains 'aes-256-gcm' and supportedHashes 'sha256'
OffersRequiredAlgorithms(m) ==
    /\ m.supportedCiphers # Undefined
    /\ "aes-256-gcm" \in Get(m.supportedCiphers)
    /\ m.supportedHashes # Undefined
    /\ "sha256" \in Get(m.supportedHashes)

\* the call handled the version-1 handshake-init m from state c and
\* returned r
AlgorithmRule(c, m, r) ==
    /\ r.result.type = "handshake-response"
          => /\ OffersRequiredAlgorithms(m)
             /\ Get(r.result.response).selectedCipher = Some("aes-256-gcm")
             /\ Get(r.result.response).selectedHash = Some("sha256")
    /\ ~OffersRequiredAlgorithms(m)
          => /\ r.result.type = "error"
             /\ r.result.error = "Unsupported cryptographic algorithms"
             /\ r.result.response = Undefined
             /\ r.state = c

\* C13 (algorithm check): the Responder accepts a version-1 handshake-init
\* only if supportedCiphers contains 'aes-256-gcm' and supportedHashes
\* contains 'sha256'; otherwise it returns type 'error' with 'Unsupported
\* cryptographic algorithms', no response, and stores nothing; every
\* accepted init is answered with selectedCipher 'aes-256-gcm' and
\* selectedHash 'sha256'.
AlgorithmCheck ==
    \A m \in InitInputs :
        m.version = Some(1) => AlgorithmRule(consumer, m, handleMessage(consumer, m))

\* the Responder has just refused a handshake-init for its algorithms
AlgorithmCheckWitness ==
    /\ last.peer = "consumer"
    /\ last.type = "handshake-init"
    /\ last.result.error = "Unsupported cryptographic algorithms"

\* the result of a call that was given a string that is not JSON
MalformedResult(result) ==
    /\ result.type = "error"
    /\ ~result.confirmed
    /\ result.error = "Invalid message format"
    /\ result.response = Undefined
    /\ result.confirmationMac = Undefined

\* C14 (malformed input): in every state, a string that is not valid JSON
\* given to handleMessage or handleResponse returns type 'error', confirmed
\* false and error 'Invalid message format', with no response and no
\* confirmationMac.
MalformedInput ==
    /\ MalformedResult(handleMessage(consumer, NotJson).result)
    /\ MalformedResult(handleResponse(provider, NotJson).result)

\* a peer that holds derived keys has just been given a string that is not
\* JSON
MalformedInputWitness ==
    /\ last.op = "handle"
    /\ last.result.error = "Invalid message format"
    /\ (IsDefined(provider.derivedKeys) \/ IsDefined(consumer.derivedKeys))

\* the buffer holds only zero bytes
AllZero(buf) == \A i \in 1..Len(buf) : buf[i] = 0

\* an optional buffer that existed in state before holds only zero bytes in
\* state after, at its full length
Cleared(before, after) ==
    IsDefined(before)
    => /\ IsDefined(after)
       /\ Len(Get(after)) = Len(Get(before))
       /\ AllZero(Get(after))

\* destroy() took a peer from state hs, with own nonce own and stored peer
\* nonce peer, to state d with own nonce dOwn and stored peer nonce dPeer
DestroyClears(hs, own, peer, d, dOwn, dPeer) ==
    /\ getDerivedKeys(d) = Undefined
    /\ ~isHandshakeConfirmed(d)
    /\ Len(dOwn) = Len(own) /\ AllZero(dOwn)
    /\ Cleared(peer, dPeer)
    /\ Cleared(hs.sharedSecret, d.sharedSecret)
    /\ IsDefined(hs.derivedKeys)
          => /\ AllZero(ZeroizeKeys(Get(hs.derivedKeys)).encryptionKey)
             /\ AllZero(ZeroizeKeys(Get(hs.derivedKeys)).authenticationKey)
             /\ AllZero(ZeroizeKeys(Get(hs.derivedKeys)).confirmationKey)
             /\ Len(ZeroizeKeys(Get(hs.derivedKeys)).encryptionKey)
                   = Len(Get(hs.derivedKeys).encryptionKey)

\* destroy() on the provider, from state p to state d
ProviderDestroyClears(p, d) ==
    DestroyClears(p, p.providerNonce, p.consumerNonce,
                  d, d.providerNonce, d.consumerNonce)

\* destroy() on the consumer, from state c to state d
ConsumerDestroyClears(c, d) ==
    DestroyClears(c, c.consumerNonce, c.providerNonce,
                  d, d.consumerNonce, d.providerNonce)

\* C15 (destroy clears the session): after destroy() on either peer from any
\* reachable state, getDerivedKeys() returns null, isHandshakeConfirmed()
\* returns false, and the peer's own nonce, the stored peer nonce, the shared
\* secret and the three derived key buffers that existed before the call
\* hold only zero bytes.
DestroyClearsSession ==
    /\ ProviderDestroyClears(provider, ProviderDestroy(provider))
    /\ ConsumerDestroyClears(consumer, ConsumerDestroy(consumer))
    /\ (last.op = "destroy" /\ last.peer = "provider")
          => /\ getDerivedKeys(provider) = Undefined
             /\ ~isHandshakeConfirmed(provider)
             /\ AllZero(provider.providerNonce)
    /\ (last.op = "destroy" /\ last.peer = "consumer")
          => /\ getDerivedKeys(consumer) = Undefined
             /\ ~isHandshakeConfirmed(consumer)
             /\ AllZero(consumer.consumerNonce)

\* a peer that had confirmed has just been destroyed
DestroyClearsSessionWitness ==
    /\ last.op = "destroy"
    /\ \/ last.peer = "provider" /\ IsDefined(verified.provider)
             /\ IsDefined(provider.sharedSecret)
       \/ last.peer = "consumer" /\ IsDefined(verified.consumer)
             /\ IsDefined(consumer.sharedSecret)

\* C16 (idempotent destroy): from any reachable state of either peer,
\* destroy() called twice leaves the peer in exactly the state that one call
\* leaves it in.
IdempotentDestroy ==
    /\ ProviderDestroy(ProviderDestroy(provider)) = ProviderDestroy(provider)
    /\ ConsumerDestroy(ConsumerDestroy(consumer)) = ConsumerDestroy(consumer)

\* a peer that holds a shared secret and stored nonces is in the state
\* destroy() leaves, where a further destroy() changes nothing
IdempotentDestroyWitness ==
    /\ last.op = "destroy"
    /\ \/ /\ last.peer = "provider"
          /\ IsDefined(provider.sharedSecret)
          /\ ProviderDestroy(provider) = provider
       \/ /\ last.peer = "consumer"
          /\ IsDefined(consumer.sharedSecret)
          /\ ConsumerDestroy(consumer) = consumer

\* C17 (no life after destroy): after destroy() on a peer every later
\* operation on it is a no-op error: every handle call returns an error and
\* derives no keys, and the peer never again reports isHandshakeConfirmed()
\* true.  Stated for the calls that follow destroy() directly.
NoLifeAfterDestroy ==
    /\ (last.op = "destroy" /\ last.peer = "consumer")
          => \A m \in ConsumerInputs :
                /\ handleMessage(consumer, m).result.type = "error"
                /\ handleMessage(consumer, m).state = consumer
    /\ (last.op = "destroy" /\ last.peer = "provider")
          => \A m \in ProviderInputs :
                /\ handleResponse(provider, m).result.type = "error"
                /\ handleResponse(provider, m).state = provider

\* C18 (confirmed peers ignore handshake traffic): once a peer is confirmed,
\* handling any further handshake message leaves its session id, nonces,
\* peer public key, shared secret, derived keys and confirmed flag
\* unchanged.
ConfirmedIgnoresHandshake ==
    /\ isHandshakeConfirmed(consumer)
          => \A m \in ConsumerInputs :
                m.raw = "json" => handleMessage(consumer, m).state = consumer
    /\ isHandshakeConfirmed(provider)
          => \A m \in ProviderInputs :
                m.raw = "json" => handleResponse(provider, m).state = provider

\* the handshake-init m differs from the one the consumer has answered
OtherInit(m) ==
    \/ m.sessionId # consumer.sessionId
    \/ m.providerNonce = Undefined
    \/ consumer.providerNonce # Some(FromBase64(m.providerNonce))
    \/ m.publicKey = Undefined
    \/ consumer.providerPublicKey # Some(FromBase64(m.publicKey))

\* the handshake-response m carries another consumer nonce than the one the
\* provider has derived keys from
OtherResponse(m) ==
    \/ m.consumerNonce = Undefined
    \/ provider.consumerNonce # Some(FromBase64(m.consumerNonce))

\* C19 (nonce single use): the Responder, having answered a handshake-init
\* with its consumerNonce, answers no different handshake-init with a
\* handshake-response carrying the same consumerNonce, and the Initiator,
\* having derived keys from its providerNonce, derives none again from it
\* with different responder inputs.
NonceSingleUse ==
    /\ IsDefined(consumer.derivedKeys)
          => \A m \in InitInputs :
                (OtherInit(m)
                   /\ handleMessage(consumer, m).result.type = "handshake-response")
                => Get(handleMessage(consumer, m).result.response).consumerNonce
                      # ToBase64(consumer.consumerNonce)
    /\ IsDefined(provider.derivedKeys)
          => \A m \in ResponseInputs :
                OtherResponse(m)
                => handleResponse(provider, m).result.type # "send-confirmation"

\* C20 (HKDF length limit): HKDF.derive(ikm, salt, info, L) throws 'HKDF:
\* requested length too large' exactly when L > 8160; for 0 <= L <= 8160 it
\* returns exactly L bytes built from n = ceil(L / 32) blocks, and the block
\* counter takes the values 1..n, none of them wrapped past 255.
HkdfLengthLimit ==
    hkdf.status \in {"returned", "thrown"}
    => /\ hkdf.status = "thrown" <=> hkdf.length > 8160
       /\ hkdf.status = "thrown" => hkdf.error = "HKDF: requested length too large"
       /\ hkdf.status = "returned"
             => /\ hkdf.bytes = hkdf.length
                /\ 32 * Len(hkdf.counters) >= hkdf.length
                /\ 32 * (Len(hkdf.counters) - 1) < hkdf.length
                /\ \A i \in 1..Len(hkdf.counters) :
                      hkdf.counters[i] = i /\ i <= 255

\* the longest length that succeeds has been derived, from 255 blocks
HkdfLengthLimitWitness ==
    /\ hkdf.status = "returned"
    /\ hkdf.length = 8160
    /\ Len(hkdf.counters) = 255

-----------------------------------------------------------------------------
(* Domain separation of the key schedule *)

\* the three labels _deriveKeys passes to createContextInfo
ProtocolLabels == {EncryptionLabel, AuthenticationLabel, KeyConfirmationLabel}

\* info is [byte length of label] || utf8(label) || [1]
InfoLayout(label, info) ==
    /\ Len(info) = Len(label) + 2
    /\ info[1] = Len(label)
    /\ SubSeq(info, 2, Len(label) + 1) = label
    /\ info[Len(info)] = 1

IsPrefix(a, b) == Len(a) <= Len(b) /\ SubSeq(b, 1, Len(a)) = a

\* the three keys of a derived bundle are pairwise different
KeysSeparated(keys) ==
    /\ keys.encryptionKey # keys.authenticationKey
    /\ keys.encryptionKey # keys.confirmationKey
    /\ keys.authenticationKey # keys.confirmationKey

\* C21 (domain separation): createContextInfo(label) is [byte length of
\* label] || utf8(label) || [1] for each of the three protocol labels; the
\* three info strings are pairwise distinct and none is a prefix of another;
\* and whenever a peer holds derived keys, its encryption, authentication and
\* confirmation keys are pairwise different.
DomainSeparation ==
    /\ \A l \in ProtocolLabels : InfoLayout(l, createContextInfo(l))
    /\ \A l1, l2 \in ProtocolLabels :
          l1 # l2 => /\ createContextInfo(l1) # createContextInfo(l2)
                     /\ ~IsPrefix(createContextInfo(l1), createContextInfo(l2))
    /\ IsDefined(provider.derivedKeys) => KeysSeparated(Get(provider.derivedKeys))
    /\ IsDefined(consumer.derivedKeys) => KeysSeparated(Get(consumer.derivedKeys))

\* both peers hold derived keys, the provider's just derived from a
\* handshake-response
DomainSeparationWitness ==
    /\ IsDefined(provider.derivedKeys)
    /\ IsDefined(consumer.derivedKeys)
    /\ last.peer = "provider"
    /\ last.type = "handshake-response"

-----------------------------------------------------------------------------
(* Constant-time comparison *)

\* the indices 0 .. n-1 in rising order
IndicesBelow(n) == [k \in 1..n |-> k - 1]

\* a and b have the same length and are equal at every index
SameBytes(a, b) == Len(a) = Len(b) /\ \A k \in 1..Len(a) : a[k] = b[k]

\* C22 (constant-time equality): constantTimeCompare(a, b) returns true if
\* and only if a and b have the same length and agree at every index; while
\* the loop runs it has read exactly the indices below i, each once and in
\* order, and for buffers of equal length it returns only after reading
\* every index, wherever the first differing byte is.
ConstantTimeEquality ==
    /\ cmp.pc = "loop" => cmp.visited = IndicesBelow(cmp.i)
    /\ cmp.pc = "returned" =>
          /\ cmp.value = SameBytes(cmp.a, cmp.b)
          /\ cmp.value = constantTimeCompare(cmp.a, cmp.b)
          /\ Len(cmp.a) = Len(cmp.b) => cmp.visited = IndicesBelow(Len(cmp.a))

\* the call returned false for two buffers of the longest length that
\* differ in their first byte and agree in their last
ConstantTimeEqualityWitness ==
    /\ cmp.pc = "returned"
    /\ ~cmp.value
    /\ Len(cmp.a) = MaxCompareLen
    /\ Len(cmp.b) = MaxCompareLen
    /\ cmp.a[1] # cmp.b[1]
    /\ cmp.a[MaxCompareLen] = cmp.b[MaxCompareLen]

-----------------------------------------------------------------------------
(* The encryption plugin *)

\* both key buffers the caller holds are zero-filled
BuffersZeroed ==
    /\ AllZero(Get(buffers).encryptionKey)
    /\ AllZero(Get(buffers).authenticationKey)

\* C23 (plugin enablement): isEnabled() is true exactly when the enabled
\* flag is set and keys are present; after construction with keys and after
\* setKeys the plugin is enabled; destroy() leaves both key buffers
\* zero-filled, the keys dropped and the plugin disabled; and while no keys
\* are present, as after destroy(), setEnabled(true) does not make
\* isEnabled() true, while setKeys does.
PluginEnablement ==
    /\ isEnabled(plugin) <=> (plugin.enabled /\ plugin.keys # Undefined)
    /\ (pluginCall.op = "new" /\ buffers # Undefined) => isEnabled(plugin)
    /\ pluginCall.op = "setKeys" => isEnabled(plugin)
    /\ pluginCall.op = "destroy" =>
          /\ ~isEnabled(plugin)
          /\ ~plugin.enabled
          /\ plugin.keys = Undefined
          /\ buffers # Undefined => BuffersZeroed
    /\ ~isEnabled(PluginDestroy(plugin))
    /\ plugin.keys = Undefined => ~isEnabled(setEnabled(plugin, TRUE))
    /\ ~isEnabled(setEnabled(PluginDestroy(plugin), TRUE))
    /\ \A k \in PluginKeys :
          isEnabled(setKeys(setEnabled(PluginDestroy(plugin), TRUE), k))

\* setEnabled(true) has just been called on a plugin that was destroyed
\* while holding keys, and isEnabled() is false
PluginEnablementWitness ==
    /\ pluginCall.op = "setEnabled"
    /\ pluginCall.input = JsBool(TRUE)
    /\ plugin.enabled
    /\ plugin.keys = Undefined
    /\ buffers # Undefined
    /\ BuffersZeroed
    /\ ~isEnabled(plugin)

\* text is the serialised envelope of plaintext under the plugin's key and
\* some iv: type 'encrypted-plugin-message', the plugin's algorithm name,
\* payload null and encrypted = encrypt(plaintext)
IsEnvelopeOf(p, text, plaintext) ==
    /\ IsJsonText(text)
    /\ IsObject(JSON_parse(text).value)
    /\ DOMAIN EnvelopeObject(text) = {"type", "algorithm", "payload", "encrypted"}
    /\ EnvelopeObject(text).type = RawText("encrypted-plugin-message")
    /\ EnvelopeObject(text).algorithm = p.algorithmName
    /\ EnvelopeObject(text).payload = JsNull
    /\ \E iv \in Ivs : /\ encrypt(p, plaintext, iv).ok
                       /\ EnvelopeObject(text).encrypted
                             = encrypt(p, plaintext, iv).value

\* C24 (outgoing processing): processOutgoingMessage(m) returns the
\* serialised envelope {type: 'encrypted-plugin-message', algorithm: the
\* plugin's algorithm name, payload: null, encrypted: encrypt(serialised m)}
\* exactly when isEnabled(); when the plugin is not enabled it returns the
\* plaintext serialisation of m, and wrapMessage(type, payload, true) returns
\* the plaintext JSON of {type, payload}, neither call throwing.
OutgoingProcessing ==
    /\ \A m \in Messages, iv \in Ivs :
          /\ processOutgoingMessage(plugin, m, iv).ok
          /\ isEnabled(plugin) <=>
                IsEnvelopeOf(plugin, processOutgoingMessage(plugin, m, iv).value,
                             MessageStr(m))
          /\ ~isEnabled(plugin) =>
                processOutgoingMessage(plugin, m, iv).value = MessageStr(m)
    /\ \A t \in WrapTypes, p \in WrapPayloads, iv \in Ivs :
          ~isEnabled(plugin) =>
              /\ wrapMessage(plugin, t, p, TRUE, iv).ok
              /\ wrapMessage(plugin, t, p, TRUE, iv).value
                    = JsonText(JsObj([type |-> t, payload |-> p]))

\* processOutgoingMessage has just returned plaintext on a plugin that holds
\* keys and was disabled by setEnabled(false)
OutgoingProcessingWitness ==
    /\ pluginCall.op = "processOutgoingMessage"
    /\ plugin.keys # Undefined
    /\ ~plugin.enabled
    /\ pluginCall.result = MessageStr(pluginCall.input)

\* C25 (envelope round trip): for every message m, a plain string or a JSON
\* object, and the same plugin state on both sides (enabled with the same
\* keys, or not enabled), processIncomingMessage(processOutgoingMessage(m))
\* returns m.
EnvelopeRoundTrip ==
    \A m \in Messages, iv \in Ivs :
        /\ processOutgoingMessage(plugin, m, iv).ok
        /\ processIncomingMessage(
              plugin, processOutgoingMessage(plugin, m, iv).value).value = m

\* C26 (wrap/unwrap round trip): for every type string t and payload p,
\* unwrapMessage(wrapMessage(t, p)) returns {type: t, payload: p}, whether
\* the plugin is enabled or not.
WrapRoundTrip ==
    \A t \in WrapTypes, p \in WrapPayloads, iv \in Ivs :
        /\ wrapMessage(plugin, t, p, TRUE, iv).ok
        /\ unwrapMessage(plugin, wrapMessage(plugin, t, p, TRUE, iv).value)
              = JsObj([type |-> t, payload |-> p])

\* the envelope text carries an algorithm field equal to the plugin's name
NamesAlgorithm(p, raw) ==
    /\ IsJsonText(raw)
    /\ IsObject(JSON_parse(raw).value)
    /\ GetProp(JSON_parse(raw).value, "algorithm") = p.algorithmName

\* C27 (algorithm verification on ingest): processIncomingMessage passes an
\* 'encrypted-plugin-message' envelope to decrypt only if the envelope's
\* algorithm field equals the plugin's algorithm name; an envelope naming
\* another algorithm, or none, is never decrypted.
AlgorithmVerified ==
    \A raw \in IncomingInputs :
        processIncomingMessage(plugin, raw).decrypted => NamesAlgorithm(plugin, raw)

\* the envelope a peer holding the plugin's keys sends for m
PeerEnvelope(p, m, iv) ==
    processOutgoingMessage(KeyedPlugin(Get(p.keys)), m, iv).value

-----------------------------------------------------------------------------
(* Errors as values *)

\* the types of the results the handlers return
ResultTypes ==
    {"error", "handshake-response", "send-confirmation", "key-confirmation",
     "handshake-complete"}

\* an error result: type 'error', confirmed false, an error string, and no
\* response and no confirmationMac
IsErrorValue(result) ==
    /\ result.type = "error"
    /\ ~result.confirmed
    /\ result.error # ""
    /\ result.response = Undefined
    /\ result.confirmationMac = Undefined

\* a field that is missing, or a public key that is no point of the curve
BadPublicKey(m) ==
    \/ m.publicKey = Undefined
    \/ ~IsValidPublicKey(FromBase64(m.publicKey))

\* inputs handleMessage cannot process in state c: no JSON object, a
\* handshake-init with a missing nonce or a missing or invalid public key, a
\* key-confirmation-request without a MAC or before keys exist
ConsumerMustFail(c, m) ==
    \/ m.raw # "json"
    \/ /\ m.type = "handshake-init"
       /\ (m.providerNonce = Undefined \/ BadPublicKey(m))
    \/ /\ m.type = "key-confirmation-request"
       /\ (m.confirmationMac = Undefined \/ c.derivedKeys = Undefined)

\* inputs handleResponse cannot process in state p: no JSON object, a
\* handshake-response with a missing nonce or a missing or invalid public
\* key, a key-confirmation with missing fields or before keys exist
ProviderMustFail(p, m) ==
    \/ m.raw # "json"
    \/ /\ m.type = "handshake-response"
       /\ (m.consumerNonce = Undefined \/ BadPublicKey(m))
    \/ /\ m.type = "key-confirmation"
       /\ \/ m.confirmationMac = Undefined
          \/ m.publicKey = Undefined
          \/ p.derivedKeys = Undefined

\* C29 (errors are values): handleMessage and handleResponse return a result
\* for every input in every state; a result of type 'error' has confirmed
\* false, an error string, no response and no confirmationMac; and every
\* input that is no JSON object, lacks a field, carries an invalid public
\* key or arrives before keys exist yields such an error result.
ErrorsAreValues ==
    /\ last.op = "handle" =>
          /\ last.result.type \in ResultTypes
          /\ last.result.type = "error" => IsErrorValue(last.result)
    /\ \A m \in ConsumerInputs :
          ConsumerMustFail(consumer, m)
             => IsErrorValue(handleMessage(consumer, m).result)
    /\ \A m \in ProviderInputs :
          ProviderMustFail(provider, m)
             => IsErrorValue(handleResponse(provider, m).result)

\* the provider has just returned the TypeError of a key-confirmation that
\* arrived before it held keys
ErrorsAreValuesWitness ==
    /\ last.op = "handle"
    /\ last.peer = "provider"
    /\ last.type = "key-confirmation"
    /\ provider.derivedKeys = Undefined
    /\ IsErrorValue(last.result)
    /\ last.result.error = TypeErrorMessage

-----------------------------------------------------------------------------
(* Unknown message types *)

\* well-formed messages of a type handleMessage does not handle: the
\* messages meant for the provider, a foreign type and a message without type
ConsumerUnknownInputs ==
    { m \in ProviderInputs \cup {EmptyMsg} :
        /\ m.raw = "json"
        /\ m.type \notin {"handshake-init", "key-confirmation-request"} }

\* well-formed messages of a type handleResponse does not handle: the
\* messages meant for the consumer, a foreign type and a message without type
ProviderUnknownInputs ==
    { m \in ConsumerInputs \cup {EmptyMsg} :
        /\ m.raw = "json"
        /\ m.type \notin {"handshake-response", "key-confirmation"} }

\* the call returned r from state hs: the 'Unknown message type' error, and
\* every field of the state as it was
UnknownTypeRule(hs, r) ==
    /\ r.result.type = "error"
    /\ r.result.error = "Unknown message type"
    /\ ~r.result.confirmed
    /\ r.state = hs

\* C30 (unknown message types): a well-formed message whose type is neither
\* of the two types a peer handles returns type 'error' with 'Unknown
\* message type' and confirmed false, and leaves every field of the peer's
\* handshake state, an already-true confirmed flag included, unchanged.
UnknownTypeIgnored ==
    /\ \A m \in ConsumerUnknownInputs :
          UnknownTypeRule(consumer, handleMessage(consumer, m))
    /\ \A m \in ProviderUnknownInputs :
          UnknownTypeRule(provider, handleResponse(provider, m))

\* a confirmed consumer has just returned the error for a foreign type and
\* is still confirmed
UnknownTypeIgnoredWitness ==
    /\ last.op = "handle"
    /\ last.peer = "consumer"
    /\ last.type = UnknownMessage.type
    /\ last.result.error = "Unknown message type"
    /\ consumer.confirmed
    /\ consumer.derivedKeys # Undefined

-----------------------------------------------------------------------------
(* The public key under the Initiator's expected MAC *)

\* the public key pub is the one the provider received in the
\* handshake-response it last processed: its stored shared secret was
\* computed from it (computeSecret is one-to-one in the peer's key)
IsReceivedPublicKey(p, pub) ==
    /\ IsDefined(p.sharedSecret)
    /\ IsValidPublicKey(pub)
    /\ ComputeSecret(p.ecdh, pub) = Get(p.sharedSecret)

\* C31 (Initiator verifies MAC_R against the stored transcript): the expected
\* MAC_R is computed from locally stored state only, so a key-confirmation
\* whose publicKey field differs from the public key received in the
\* handshake-response is never accepted.
StoredTranscriptOnly ==
    \A m \in KeyConfirmationInputs :
        handleResponse(provider, m).result.confirmed
            => /\ IsDefined(m.publicKey)
               /\ IsReceivedPublicKey(provider, FromBase64(m.publicKey))

-----------------------------------------------------------------------------
(* Installation of the key bundle *)

\* the key of an HMAC digest, read back from the collision-free digest
DigestKey(digest) == SubSeq(digest, 2, digest[1] + 1)

\* the data of an HMAC digest
DigestData(digest) == SubSeq(digest, digest[1] + 2, Len(digest))

\* the inputs a derived key was made from: the pseudorandom key of its
\* first block, and the salt and shared secret extracted into that key
KeyInputs(key) ==
    [salt |-> DigestKey(DigestKey(key)), secret |-> DigestData(DigestKey(key))]

\* the bundle holds all three keys and each is the HKDF output, under its
\* own label, of one shared secret and one salt of two nonces
WholeBundle(keys, nonceLen) ==
    LET in == KeyInputs(keys.encryptionKey)
    IN  /\ Len(in.salt) = 2 * nonceLen
        /\ IsValidPublicKey(in.secret)
        /\ keys = DeriveBundle(in.secret, in.salt)

\* C32 (atomic key installation): in every reachable state of either peer
\* the stored key bundle is absent or holds the encryption, authentication
\* and confirmation keys derived from one shared secret and one salt
\* providerNonce || consumerNonce; a handle step that has just derived keys
\* stores the bundle of the shared secret and nonces it stored, and a step
\* that fails part-way leaves no partial or mixed bundle.
AtomicKeyInstallation ==
    /\ IsDefined(provider.derivedKeys)
          => WholeBundle(Get(provider.derivedKeys), Len(provider.providerNonce))
    /\ IsDefined(consumer.derivedKeys)
          => WholeBundle(Get(consumer.derivedKeys), Len(consumer.consumerNonce))
    /\ (last.peer = "provider" /\ last.result.type = "send-confirmation")
          => KeyInputs(Get(provider.derivedKeys).confirmationKey)
                = [salt |-> provider.providerNonce \o Get(provider.consumerNonce),
                   secret |-> Get(provider.sharedSecret)]
    /\ (last.peer = "consumer" /\ last.result.type = "handshake-response")
          => KeyInputs(Get(consumer.derivedKeys).confirmationKey)
                = [salt |-> Get(consumer.providerNonce) \o consumer.consumerNonce,
                   secret |-> Get(consumer.sharedSecret)]

\* a handshake-response has failed part-way at a provider that holds keys:
\* the consumer nonce it stored before the failure is not the one in the
\* salt of the bundle, which is still whole
AtomicKeyInstallationWitness ==
    /\ last.peer = "provider" /\ last.op = "handle"
    /\ last.type = "handshake-response"
    /\ last.result.type = "error"
    /\ IsDefined(provider.derivedKeys)
    /\ IsDefined(provider.consumerNonce)
    /\ KeyInputs(Get(provider.derivedKeys).encryptionKey).salt
          # provider.providerNonce \o Get(provider.consumerNonce)

-----------------------------------------------------------------------------
(* The confirmed flag and the key bundle *)

\* C33 (confirmed implies keys): in every reachable state of either peer,
\* after any sequence of startHandshake, handle and destroy calls,
\* isHandshakeConfirmed() is true if and only if getDerivedKeys() is not
\* null; no state has the confirmed flag true and no stored key bundle.
ConfirmedImpliesKeys ==
    /\ isHandshakeConfirmed(provider) <=> IsDefined(getDerivedKeys(provider))
    /\ isHandshakeConfirmed(consumer) <=> IsDefined(getDerivedKeys(consumer))
    /\ provider.confirmed => IsDefined(provider.derivedKeys)
    /\ consumer.confirmed => IsDefined(consumer.derivedKeys)

\* a peer that had been confirmed has just been destroyed: its flag is
\* false and its keys are gone
ConfirmedImpliesKeysWitness ==
    /\ last.op = "destroy"
    /\ \/ /\ last.peer = "provider"
          /\ IsDefined(verified.provider)
          /\ ~isHandshakeConfirmed(provider)
          /\ ~IsDefined(getDerivedKeys(provider))
       \/ /\ last.peer = "consumer"
          /\ IsDefined(verified.consumer)
          /\ ~isHandshakeConfirmed(consumer)
          /\ ~IsDefined(getDerivedKeys(consumer))

-----------------------------------------------------------------------------
(* The session identifier *)

\* the messages the Responder has emitted
ResponderMessages ==
    { m \in wire : m.type \in {"handshake-response", "key-confirmation"} }

\* C34 (session id propagation): in every run where the Responder's inbound
\* messages come unmodified from a single Initiator, the sessionId of the
\* handshake-response and of the key-confirmation the Responder emits, and
\* the Responder's getSessionId() once it has handled the handshake-init,
\* equal the Initiator's getSessionId(), which never changes after
\* construction.
SessionIdPropagation ==
    /\ [](/\ \A m \in ResponderMessages : m.sessionId = getSessionId(provider)
          /\ IsDefined(consumer.providerNonce)
                => getSessionId(consumer) = getSessionId(provider)
          /\ IsDefined(getSessionId(provider)))
    /\ [][getSessionId(provider)' = getSessionId(provider)]_vars

\* the Responder has emitted both of its messages
SessionIdPropagationWitness ==
    /\ \E m \in wire : m.type = "handshake-response" /\ IsDefined(m.sessionId)
    /\ \E m \in wire : m.type = "key-confirmation" /\ IsDefined(m.sessionId)
    /\ IsDefined(getSessionId(consumer))
    /\ provider.confirmed

-----------------------------------------------------------------------------
(* The order of the two confirmations *)

\* C35 (confirmation order): in every run between one Initiator and one
\* Responder with unmodified messages and no destroy, the Responder becomes
\* confirmed strictly before the Initiator: whenever the Initiator's
\* isHandshakeConfirmed() is true the Responder's is true, and was already
\* true before the step that confirmed the Initiator.
ConfirmationOrder ==
    /\ [](isHandshakeConfirmed(provider) => isHandshakeConfirmed(consumer))
    /\ [][(isHandshakeConfirmed(provider)' /\ ~isHandshakeConfirmed(provider))
             => isHandshakeConfirmed(consumer)]_vars

\* the Responder exposes its keys while the Initiator still returns null
ConfirmationOrderWitness ==
    /\ IsDefined(getDerivedKeys(consumer))
    /\ ~IsDefined(getDerivedKeys(provider))
    /\ \E m \in wire : m.type = "key-confirmation"

-----------------------------------------------------------------------------
(* The state after a failed call *)

\* the call returned r from state hs: an error result leaves the state as
\* it was
UnchangedOnError(hs, r) == r.result.type = "error" => r.state = hs

\* C36 (state unchanged on error): a handleMessage / handleResponse call
\* that returns type 'error' leaves the peer's stored session id, nonces,
\* peer public key, shared secret, derived keys and confirmed flag exactly as
\* they were before the call, also when the failure occurs after validation
\* (a public key rejected by ECDH, a missing nonce field).
StateUnchangedOnError ==
    /\ \A m \in ConsumerInputs :
          UnchangedOnError(consumer, handleMessage(consumer, m))
    /\ \A m \in ProviderInputs :
          UnchangedOnError(provider, handleResponse(provider, m))

-----------------------------------------------------------------------------
(* Incoming messages that cannot be processed *)

\* the text is an 'encrypted-plugin-message' envelope: it parses to an
\* object of that type with an encrypted part
IsEnvelope(raw) ==
    /\ JSON_parse(raw).ok
    /\ IsObject(JSON_parse(raw).value)
    /\ GetProp(JSON_parse(raw).value, "type") = EnvelopeType
    /\ Truthy(GetProp(JSON_parse(raw).value, "encrypted"))

\* plugin p cannot process the envelope: p is not enabled, the envelope
\* names another algorithm, decryption fails, or the decrypted text is not
\* JSON
Unprocessable(p, raw) ==
    \/ ~isEnabled(p)
    \/ /\ Truthy(GetProp(JSON_parse(raw).value, "algorithm"))
       /\ GetProp(JSON_parse(raw).value, "algorithm") # AlgorithmName
    \/ ~decrypt(p, GetProp(JSON_parse(raw).value, "encrypted")).ok
    \/ ~JSON_parse(decrypt(p, GetProp(JSON_parse(raw).value, "encrypted")).value).ok

-----------------------------------------------------------------------------
(* Key buffers shared between a peer and a plugin *)

\* the peer the plugin's keys came from
KeyPeer == IF keySource = "provider" THEN provider ELSE consumer

\* C38 (key buffers are shared, not copied): getDerivedKeys() returns the
\* peer's own key buffers and a plugin built from them stores those same
\* buffers; after plugin.destroy() the confirmed peer's getDerivedKeys()
\* still returns non-null but all-zero keys, and after peer.destroy() a
\* plugin built earlier from its keys remains isEnabled() while its
\* encryption key is all zeros, in whichever order the two destroy calls
\* are interleaved with encrypt calls.
KeyBuffersShared ==
    keySource # "none" =>
       /\ (IsDefined(plugin.keys) /\ IsDefined(KeyPeer.derivedKeys))
             => /\ Get(plugin.keys).encryptionKey
                     = KeyBuffer(Get(KeyPeer.derivedKeys).encryptionKey)
                /\ Get(plugin.keys).authenticationKey
                     = KeyBuffer(Get(KeyPeer.derivedKeys).authenticationKey)
                /\ ~AllZero(Get(plugin.keys).encryptionKey)
       /\ (~IsDefined(plugin.keys) /\ isHandshakeConfirmed(KeyPeer))
             => /\ IsDefined(getDerivedKeys(KeyPeer))
                /\ AllZero(Get(getDerivedKeys(KeyPeer)).encryptionKey)
                /\ AllZero(Get(getDerivedKeys(KeyPeer)).authenticationKey)
       /\ (IsDefined(plugin.keys) /\ ~IsDefined(KeyPeer.derivedKeys))
             => /\ isEnabled(plugin)
                /\ AllZero(Get(plugin.keys).encryptionKey)
                /\ AllZero(Get(plugin.keys).authenticationKey)

\* the peer has been destroyed, and the plugin built from its keys has just
\* encrypted a message under the all-zero key
KeyBuffersSharedWitness ==
    /\ keySource # "none"
    /\ ~IsDefined(KeyPeer.derivedKeys)
    /\ isEnabled(plugin)
    /\ AllZero(Get(plugin.keys).encryptionKey)
    /\ pluginCall.op = "encrypt"
    /\ pluginCall.ok

-----------------------------------------------------------------------------
(* C39 *)

\* the bytes of a string that the HMAC at its end covers
CoveredBytes(str) ==
    SubSeq(FromBase64(str), 1, Len(FromBase64(str)) - HashLen)

\* decrypt was given what encrypt returned, unaltered
InputIntact == sealed.input = sealed.data

\* decrypt was given at least 64 bytes
InputLongEnough ==
    Len(FromBase64(sealed.input)) >= IvLength + TagLength + HashLen

\* C39: crypto-utils encrypt/decrypt.  Decrypting what encrypt returned for
\* a text, under the two keys it was encrypted with, returns that text.
\* Decrypting at least 64 bytes under another authentication key, or with
\* the iv, the ciphertext or the GCM tag altered, throws 'Authentication
\* failed' and no AES-GCM decryption is attempted.  Decrypting the unaltered
\* data under the right authentication key and another encryption key
\* throws.  An input shorter than 64 bytes throws 'Invalid encrypted data'.
EncryptDecryptRoundTrip ==
    sealed.op = "decrypt" =>
      /\ ( /\ InputIntact
           /\ sealed.decryptionKey = sealed.encryptionKey
           /\ sealed.verificationKey = sealed.authenticationKey )
         => sealed.result = Returned(sealed.text)
      /\ ( /\ InputLongEnough
           /\ \/ sealed.verificationKey # sealed.authenticationKey
              \/ CoveredBytes(sealed.input) # CoveredBytes(sealed.data) )
         => /\ sealed.result = Thrown("Authentication failed")
            /\ ~sealed.deciphered
      /\ ( /\ InputIntact
           /\ sealed.verificationKey = sealed.authenticationKey
           /\ sealed.decryptionKey # sealed.encryptionKey )
         => ~sealed.result.ok
      /\ ~InputLongEnough
         => sealed.result = Thrown("Invalid encrypted data")

\* a two-byte character was encrypted and decrypted back under its own keys
RoundTripWitness ==
    /\ sealed.op = "decrypt"
    /\ InputIntact
    /\ sealed.decryptionKey = sealed.encryptionKey
    /\ sealed.verificationKey = sealed.authenticationKey
    /\ sealed.text = <<110, 233>>
    /\ sealed.result = Returned(<<110, 233>>)

\* an altered ciphertext byte was rejected by the HMAC under the right keys
AlteredRejectedWitness ==
    /\ sealed.op = "decrypt"
    /\ InputLongEnough
    /\ sealed.decryptionKey = sealed.encryptionKey
    /\ sealed.verificationKey = sealed.authenticationKey
    /\ Len(FromBase64(sealed.input)) = Len(FromBase64(sealed.data))
    /\ SubSeq(FromBase64(sealed.input), IvLength + 1, IvLength + 1)
         # SubSeq(FromBase64(sealed.data), IvLength + 1, IvLength + 1)
    /\ sealed.result = Thrown("Authentication failed")

\* another encryption key got past the HMAC and failed in AES-GCM
WrongEncryptionKeyWitness ==
    /\ sealed.op = "decrypt"
    /\ InputIntact
    /\ sealed.verificationKey = sealed.authenticationKey
    /\ sealed.decryptionKey # sealed.encryptionKey
    /\ sealed.deciphered
    /\ ~sealed.result.ok

\* 63 bytes were rejected
ShortInputWitness ==
    /\ sealed.op = "decrypt"
    /\ Len(FromBase64(sealed.input)) = IvLength + TagLength + HashLen - 1
    /\ sealed.result = Thrown("Invalid encrypted data")

-----------------------------------------------------------------------------
(* C40 *)

\* the consumer's last call was handleMessage on the string the provider
\* sent, and the provider has derived a key
BothDerived ==
    /\ legacy.sent # JsUndefined
    /\ legacy.handled = legacy.sent
    /\ IsDefined(legacy.providerKey)

\* this step is a call of handleMessage on an input of the set inputs
HandlesOneOf(inputs) ==
    /\ legacy' # legacy
    /\ legacy'.op = "handleMessage"
    /\ legacy'.handled \in inputs

\* C40: the deprecated Provider and Consumer.  Once the consumer has handled
\* the provider's 'public-key' message, the key the provider derives from
\* the consumer's public key and a salt equals the consumer's shared key
\* exactly when that salt is the salt string of the message.  Handling a
\* 'public-key' message that has no salt throws and leaves the shared key as
\* it was, undefined on a consumer that had none; handling text that is not
\* JSON returns without throwing and leaves the shared key as it was.
LegacyAgreement ==
    /\ [](BothDerived =>
            ( Some(Get(legacy.providerKey)) = legacy.consumer.sharedKey
              <=> legacy.usedSalt = SentSalt(legacy.sent) ))
    /\ [][ /\ HandlesOneOf({ SaltlessMessage(ProviderPriv),
                             SaltlessMessage(AttackerPriv) })
             => /\ legacy'.result = Thrown("Handshake missing salt")
                /\ legacy'.consumer.sharedKey = legacy.consumer.sharedKey
           /\ HandlesOneOf(UnparseableInputs)
             => /\ legacy'.result.ok
                /\ legacy'.consumer.sharedKey = legacy.consumer.sharedKey
         ]_vars

\* the consumer handled the message and the provider, using the salt sent,
\* holds the consumer's key
LegacyAgreementWitness ==
    /\ BothDerived
    /\ legacy.usedSalt = SentSalt(legacy.sent)
    /\ Some(Get(legacy.providerKey)) = legacy.consumer.sharedKey

\* the provider used the salt with a byte inverted and holds another key
TamperedSaltWitness ==
    /\ BothDerived
    /\ legacy.usedSalt = TamperedSalt(SentSalt(legacy.sent))
    /\ IsDefined(legacy.consumer.sharedKey)
    /\ Some(Get(legacy.providerKey)) # legacy.consumer.sharedKey

\* a consumer without a key threw on a message without a salt and has none
MissingSaltWitness ==
    /\ legacy.op = "handleMessage"
    /\ legacy.handled = SaltlessMessage(ProviderPriv)
    /\ legacy.result = Thrown("Handshake missing salt")
    /\ legacy.consumer.sharedKey = Undefined

\* a consumer holding a key was given text that is not JSON
UnparseableIgnoredWitness ==
    /\ legacy.op = "handleMessage"
    /\ legacy.handled \in UnparseableInputs
    /\ legacy.result.ok
    /\ IsDefined(legacy.consumer.sharedKey)

====
